---------------------------- MODULE Spec2Model ----------------------------
(***************************************************************************)
(* FROST threshold Schnorr key generation and keys (crypto/frost) with the *)
(* CLSAG algorithm instance (coins/monero), as state machines.             *)
(*                                                                         *)
(* The curve is scaled down to a cyclic group of prime order Q: the        *)
(* subgroup of order Q of the multiplicative group modulo P.  A point is   *)
(* its residue modulo P, the group law ("point addition") is the product   *)
(* modulo P, and scalar multiplication is exponentiation.  Scalars are the *)
(* residues modulo Q.                                                      *)
(*                                                                         *)
(* Byte strings are sequences of cells, one cell per encoded element (a    *)
(* scalar, a point, a u16, the curve-ID header): lengths are counted in    *)
(* cells.                                                                  *)
(***************************************************************************)
EXTENDS Integers, Naturals, Sequences, FiniteSets, TLC

(***************************************************************************)
(* Bounds of the model                                                     *)
(***************************************************************************)
\* largest number of participants n
MaxN == 3
\* rng seeds range over 1..MaxSeed
MaxSeed == 2
\* u16 arguments of MultisigParams::new range over 0..MaxU16
MaxU16 == 4
\* how many times a serialization is altered before it is read
MaxCorruptions == 1
\* messages to sign range over 1..MaxMsg
MaxMsg == 2
\* the offsets applied to keys one after the other
MaxOffsets == 2
\* the entries of a batch of signatures
MaxBatch == 2

(***************************************************************************)
(* Curve: scalar field F, group G                                          *)
(***************************************************************************)
\* order of the scalar field F (and of the group)
Q == 5
\* modulus of the residues that represent points
P == 11
\* C::GENERATOR, an element of order Q modulo P
GENERATOR == 4
\* the identity point
IDENTITY == 1
\* C::GENERATOR_TABLE is the same point as C::GENERATOR
GENERATOR_TABLE == GENERATOR

F == 0 .. (Q - 1)

RECURSIVE Pow(_, _, _)
Pow(b, e, m) == IF e = 0 THEN 1 % m ELSE (b * Pow(b, e - 1, m)) % m

\* the points of the group: the powers of the generator
G == { Pow(GENERATOR, k, P) : k \in F }

FAdd(a, b) == (a + b) % Q
FSub(a, b) == (a + Q - b) % Q
FNeg(a) == (Q - a) % Q
FMul(a, b) == (a * b) % Q
\* F::from(u64)
FFrom(u) == u % Q
\* invert(): None on zero
FInvertible(a) == a % Q # 0
FInvert(a) == Pow(a, Q - 2, Q)

\* point + point
GAdd(a, b) == (a * b) % P
\* point * scalar
GMul(a, k) == Pow(a, k % Q, P)
GNeg(a) == Pow(a, Q - 1, P)
GSub(a, b) == GAdd(a, GNeg(b))

\* sum of a sequence of points
RECURSIVE GSum(_)
GSum(s) == IF s = << >> THEN IDENTITY ELSE GAdd(Head(s), GSum(Tail(s)))

\* sum of a sequence of scalars
RECURSIVE FSum(_)
FSum(s) == IF s = << >> THEN 0 ELSE FAdd(Head(s), FSum(Tail(s)))

(***************************************************************************)
(* Results                                                                 *)
(***************************************************************************)
Ok(v) == [tag |-> "Ok", val |-> v]
Err(kind, l) == [tag |-> "Err", kind |-> kind, l |-> l]
\* an index out of range, a failed unwrap or a failed assertion
Panic(why) == [tag |-> "Panic", why |-> why]

IsOk(r) == r.tag = "Ok"
IsErr(r) == r.tag = "Err"
IsPanic(r) == r.tag = "Panic"

(***************************************************************************)
(* Curve encodings (kp256.rs)                                              *)
(***************************************************************************)
\* cell values on the wire
Cell == 0 .. (P - 1)

F_len == 1
G_len == 1

F_to_bytes(f) == << f >>
G_to_bytes(g) == << g >>

\* the slice must be one scalar long and hold a canonical scalar, below the modulus
F_from_slice(slice) ==
  IF Len(slice) # F_len THEN Err("InvalidLength", Len(slice))
  ELSE IF slice[1] >= Q THEN Err("InvalidScalar", 0)
  ELSE Ok(slice[1])

\* G_from_slice without the rejection of the identity
G_from_slice_AcceptsIdentity(slice) ==
  IF Len(slice) # G_len THEN Err("InvalidLength", Len(slice))
  ELSE IF slice[1] \notin G THEN Err("InvalidPoint", 0)
  ELSE Ok(slice[1])

\* the slice must be one point long and hold a point of the group other than the identity
G_from_slice(slice) ==
  IF Len(slice) # G_len THEN Err("InvalidLength", Len(slice))
  ELSE IF slice[1] \notin G \/ slice[1] = IDENTITY THEN Err("InvalidPoint", 0)
  ELSE Ok(slice[1])

\* a hash of a sequence of cells to a scalar, separated by a domain tag
RECURSIVE Mix(_, _)
Mix(h, cells) ==
  IF cells = << >> THEN h
  ELSE Mix((7 * h + Head(cells) + 3) % 1009, Tail(cells))

\* the reduction of the expanded message into the field.  Like the rng's draws
\* (F_random), the digests range over the nonzero scalars: the value 0, which a
\* uniform draw or a digest takes with probability 1 / |F|, is left out.
hash_to_F(dst, msg) == 1 + (Mix(dst, msg) % (Q - 1))

(***************************************************************************)
(* MultisigParams (lib.rs)                                                 *)
(***************************************************************************)
\* MultisigParams::new comparing the index with n by >= instead of >
MultisigParams_new_IndexOffByOne(t, n, i) ==
  IF (t = 0) \/ (n = 0) THEN Err("ZeroParameter", << t, n >>)
  ELSE IF t > n THEN Err("InvalidRequiredQuantity", << t, n >>)
  ELSE IF (i = 0) \/ (i >= n) THEN Err("InvalidParticipantIndex", << n, i >>)
  ELSE Ok([t |-> t, n |-> n, i |-> i])

MultisigParams_new(t, n, i) ==
  IF (t = 0) \/ (n = 0) THEN Err("ZeroParameter", << t, n >>)
  ELSE IF t > n THEN Err("InvalidRequiredQuantity", << t, n >>)
  ELSE IF (i = 0) \/ (i > n) THEN Err("InvalidParticipantIndex", << n, i >>)
  ELSE Ok([t |-> t, n |-> n, i |-> i])

(***************************************************************************)
(* Maps (HashMap<u16, T>) are functions on a finite set of indices         *)
(***************************************************************************)
EmptyMap == [l \in {} |-> 0]

\* the map that holds f's value at every key of keys: a map holds the values of its
\* entries, computed once, when the map is made
RECURSIVE Collected(_, _)
Collected(keys, f) ==
  IF keys = {} THEN EmptyMap
  ELSE LET k == CHOOSE k \in keys : TRUE
       IN (k :> f[k]) @@ Collected(keys \ {k}, f)
Collect(f) == Collected(DOMAIN f, f)

MapInsert(map, k, v) == (k :> v) @@ map
MapRemove(map, k) == Collect([l \in (DOMAIN map) \ {k} |-> map[l]])

\* the sequence 1 ..= n
RangeInclusive(n) == [l \in 1 .. n |-> l]

\* rust's s[from .. to] panics unless from <= to <= s.len()
SliceOk(s, from, to) == from <= to /\ to <= Len(s)
Slice(s, from, to) == SubSeq(s, from + 1, to)

\* a finite set of indices as the ascending sequence
RECURSIVE Ascending(_)
Ascending(S) ==
  IF S = {} THEN << >>
  ELSE LET least == CHOOSE x \in S : \A y \in S : x <= y
       IN << least >> \o Ascending(S \ {least})

\* the orders in which a HashMap with the keys S may be iterated, one for each key
\* that may come first.  The loops over a HashMap stop at the first entry that fails,
\* and blame it: what such a loop returns under any order of the keys, it returns
\* under the order that starts with the entry it stopped at.
IterationOrders(S) == { << b >> \o Ascending(S \ {b}) : b \in S }

(***************************************************************************)
(* lagrange (lib.rs)                                                       *)
(***************************************************************************)
\* the numerator and the denominator after the loop over included, from position k on
RECURSIVE lagrange_loop(_, _, _, _, _)
lagrange_loop(i, included, k, num, denom) ==
  IF k > Len(included) THEN [num |-> num, denom |-> denom]
  ELSE IF i = included[k] THEN lagrange_loop(i, included, k + 1, num, denom)
  ELSE LET share == FFrom(included[k])
       IN lagrange_loop(i, included, k + 1, FMul(num, share),
                        FMul(denom, FSub(share, FFrom(i))))

\* denom.invert().unwrap() panics on a zero denominator
lagrange_panics(i, included) == ~FInvertible(lagrange_loop(i, included, 1, 1, 1).denom)

\* lagrange with the denominator's factors as i - share instead of share - i
RECURSIVE lagrange_loop_Swapped(_, _, _, _, _)
lagrange_loop_Swapped(i, included, k, num, denom) ==
  IF k > Len(included) THEN [num |-> num, denom |-> denom]
  ELSE IF i = included[k] THEN lagrange_loop_Swapped(i, included, k + 1, num, denom)
  ELSE LET share == FFrom(included[k])
       IN lagrange_loop_Swapped(i, included, k + 1, FMul(num, share),
                                FMul(denom, FSub(FFrom(i), share)))

lagrange_Swapped(i, included) ==
  LET r == lagrange_loop_Swapped(i, included, 1, 1, 1)
  IN FMul(r.num, FInvert(r.denom))

lagrange(i, included) ==
  LET r == lagrange_loop(i, included, 1, 1, 1)
  IN FMul(r.num, FInvert(r.denom))

(***************************************************************************)
(* validate_map (lib.rs): the map after the insertion, and the result      *)
(***************************************************************************)
RECURSIVE FirstMissing(_, _, _)
FirstMissing(map, included, k) ==
  IF k > Len(included) THEN 0
  ELSE IF included[k] \notin DOMAIN map THEN included[k]
  ELSE FirstMissing(map, included, k + 1)

\* validate_map keeping the entry the caller passed for our own index
validate_map_KeepsEntry(map, included, ours) ==
  LET inserted == IF ours[1] \in DOMAIN map THEN map ELSE MapInsert(map, ours[1], ours[2])
      missing == FirstMissing(inserted, included, 1)
  IN [ map |-> inserted,
       res |-> IF Cardinality(DOMAIN inserted) # Len(included)
                 THEN Err("InvalidParticipantQuantity",
                          << Len(included), Cardinality(DOMAIN inserted) >>)
               ELSE IF missing # 0 THEN Err("MissingParticipant", missing)
               ELSE Ok(<< >>) ]

validate_map(map, included, ours) ==
  LET inserted == MapInsert(map, ours[1], ours[2])
      missing == FirstMissing(inserted, included, 1)
  IN [ map |-> inserted,
       res |-> IF Cardinality(DOMAIN inserted) # Len(included)
                 THEN Err("InvalidParticipantQuantity",
                          << Len(included), Cardinality(DOMAIN inserted) >>)
               ELSE IF missing # 0 THEN Err("MissingParticipant", missing)
               ELSE Ok(<< >>) ]

(***************************************************************************)
(* Schnorr (schnorr.rs)                                                    *)
(***************************************************************************)
SchnorrSignature_serialize(sig) == G_to_bytes(sig.R) \o F_to_bytes(sig.s)

\* sign subtracting the product of the key and the challenge
sign_Subtracts(private_key, nonce, challenge_) ==
  [ R |-> GMul(GENERATOR_TABLE, nonce),
    s |-> FSub(nonce, FMul(private_key, challenge_)) ]

sign(private_key, nonce, challenge_) ==
  [ R |-> GMul(GENERATOR_TABLE, nonce),
    s |-> FAdd(nonce, FMul(private_key, challenge_)) ]

verify(public_key, challenge_, signature) ==
  GMul(GENERATOR_TABLE, signature.s) = GAdd(signature.R, GMul(public_key, challenge_))

\* multiexp: the sum of scalar * point over a sequence of << scalar, point >> pairs
RECURSIVE multiexp_vartime(_)
multiexp_vartime(pairs) ==
  IF pairs = << >> THEN IDENTITY
  ELSE GAdd(GMul(Head(pairs)[2], Head(pairs)[1]), multiexp_vartime(Tail(pairs)))

\* BatchVerifier: a queue of [id, values]; a statement holds when its pairs sum to
\* the identity.  Ok when every statement holds, else the id of the first queued
\* statement that fails when checked on its own.
RECURSIVE BatchVerifier_verify_with_blame(_)
BatchVerifier_verify_with_blame(queue) ==
  IF queue = << >> THEN Ok(<< >>)
  ELSE IF multiexp_vartime(Head(queue).values) # IDENTITY THEN Err("Blame", Head(queue).id)
  ELSE BatchVerifier_verify_with_blame(Tail(queue))

\* batch_verify queueing every public key with the challenge one
batch_verify_UnitChallenge(triplets) ==
  BatchVerifier_verify_with_blame(
    [ k \in DOMAIN triplets |->
        [ id |-> triplets[k][1],
          values |-> << << 1, triplets[k][4].R >>,
                        << 1, triplets[k][2] >>,
                        << FNeg(triplets[k][4].s), GENERATOR >> >> ] ])

\* batch_verify blaming the first entry for the failure of any entry
batch_verify_BlamesFirst(triplets) ==
  IF \A k \in DOMAIN triplets : verify(triplets[k][2], triplets[k][3], triplets[k][4])
    THEN Ok(<< >>)
  ELSE Err("Blame", triplets[1][1])

\* triplets: a sequence of << id, public key A, challenge c, signature >>
batch_verify(triplets) ==
  BatchVerifier_verify_with_blame(
    [ k \in DOMAIN triplets |->
        [ id |-> triplets[k][1],
          values |-> << << 1, triplets[k][4].R >>,
                        << triplets[k][3], triplets[k][2] >>,
                        << FNeg(triplets[k][4].s), GENERATOR >> >> ] ])

(***************************************************************************)
(* Key generation (key_gen.rs)                                             *)
(***************************************************************************)
\* the domain separation tag "FROST Schnorr Proof of Knowledge"
DST_PoK == 11
\* the tag of hash_msg, CONTEXT || "digest"
DST_digest == 13

\* the context string of a key generation session
DkgContext == << 2 >>

\* a fixed-size digest of a message
hash_msg(msg) == << Mix(DST_digest, msg) % P >>

\* u16::to_be_bytes
u16_to_be_bytes(l) == << l >>

challenge(context, l, R, Am) ==
  hash_to_F(DST_PoK, hash_msg(context) \o u16_to_be_bytes(l) \o R \o Am)

\* C::F::random(rng): the k-th draw (from 0) of the rng seeded with seed.  The draws
\* range over the nonzero scalars.
F_random(seed, k) == 1 + ((seed * (k + 1) + k) % (Q - 1))

RECURSIVE Concat(_)
Concat(ss) == IF ss = << >> THEN << >> ELSE Head(ss) \o Concat(Tail(ss))

generate_key_r1(seed, params, context) ==
  LET t == params.t
      coefficients == [k \in 1 .. t |-> F_random(seed, k - 1)]
      commitments == [k \in 1 .. t |-> GMul(GENERATOR_TABLE, coefficients[k])]
      serialized == Concat([k \in 1 .. t |-> G_to_bytes(commitments[k])])
      r == F_random(seed, t)
  IN [ coefficients |-> coefficients,
       serialized |->
         serialized \o SchnorrSignature_serialize(
           sign(coefficients[1], r,
                challenge(context, params.i, G_to_bytes(GMul(GENERATOR_TABLE, r)),
                          serialized))) ]

\* parse_commitments taking the identity for a commitment
RECURSIVE parse_commitments_AcceptsIdentity(_, _, _, _, _)
parse_commitments_AcceptsIdentity(params, bytes, l, c, acc) ==
  IF c = params.t THEN Ok(acc)
  ELSE IF ~SliceOk(bytes, c * G_len, (c + 1) * G_len) THEN Panic("slice")
  ELSE LET g == G_from_slice_AcceptsIdentity(Slice(bytes, c * G_len, (c + 1) * G_len))
       IN IF IsErr(g) THEN Err("InvalidCommitment", l)
          ELSE parse_commitments_AcceptsIdentity(params, bytes, l, c + 1, Append(acc, g.val))

\* the commitments of party l: the points, an InvalidCommitment error, or the panic
\* of a slice out of range
RECURSIVE parse_commitments(_, _, _, _, _)
parse_commitments(params, bytes, l, c, acc) ==
  IF c = params.t THEN Ok(acc)
  ELSE IF ~SliceOk(bytes, c * G_len, (c + 1) * G_len) THEN Panic("slice")
  ELSE LET g == G_from_slice(Slice(bytes, c * G_len, (c + 1) * G_len))
       IN IF IsErr(g) THEN Err("InvalidCommitment", l)
          ELSE parse_commitments(params, bytes, l, c + 1, Append(acc, g.val))

\* the loop of verify_r1 over l = 1 ..= n, from l on
RECURSIVE verify_r1_loop(_, _, _, _, _, _)
verify_r1_loop(params, context, serialized, l, commitments, signatures) ==
  IF l > params.n THEN Ok([commitments |-> commitments, signatures |-> signatures])
  ELSE
    LET commitments_len == params.t * G_len
        bytes == serialized[l]
        these_commitments == parse_commitments(params, bytes, l, 0, << >>)
    IN IF ~IsOk(these_commitments) THEN these_commitments
       ELSE IF l = params.i
         THEN verify_r1_loop(params, context, serialized, l + 1,
                             MapInsert(commitments, l, these_commitments.val), signatures)
       ELSE IF ~SliceOk(bytes, commitments_len, commitments_len + G_len)
         THEN Panic("slice")
       ELSE
         LET R_bytes == Slice(bytes, commitments_len, commitments_len + G_len)
             Am == Slice(bytes, 0, commitments_len)
             c == challenge(context, l, R_bytes, Am)
             R == G_from_slice(R_bytes)
             s == F_from_slice(Slice(bytes, commitments_len + G_len, Len(bytes)))
         IN IF IsErr(R) THEN Err("InvalidProofOfKnowledge", l)
            ELSE IF IsErr(s) THEN Err("InvalidProofOfKnowledge", l)
            ELSE verify_r1_loop(params, context, serialized, l + 1,
                   MapInsert(commitments, l, these_commitments.val),
                   Append(signatures,
                          << l, these_commitments.val[1], c, [R |-> R.val, s |-> s.val] >>))

verify_r1(params, context, our_commitments, serialized) ==
  LET validated == validate_map(serialized, RangeInclusive(params.n),
                                << params.i, our_commitments >>)
      parsed == verify_r1_loop(params, context, validated.map, 1, EmptyMap, << >>)
      batch == batch_verify(parsed.val.signatures)
  IN IF IsErr(validated.res) THEN validated.res
     ELSE IF ~IsOk(parsed) THEN parsed
     ELSE IF IsErr(batch) THEN Err("InvalidProofOfKnowledge", batch.l)
     ELSE Ok(parsed.val.commitments)

\* the loop of polynomial over the coefficients in reverse, from position idx on
RECURSIVE polynomial_loop(_, _, _, _)
polynomial_loop(coefficients, l, idx, share) ==
  IF idx = Len(coefficients) THEN share
  ELSE LET added == FAdd(share, coefficients[Len(coefficients) - idx])
       IN polynomial_loop(coefficients, l, idx + 1,
                          IF idx # Len(coefficients) - 1 THEN FMul(added, l) ELSE added)

\* polynomial multiplying by l after the last coefficient too
RECURSIVE polynomial_loop_ExtraMul(_, _, _, _)
polynomial_loop_ExtraMul(coefficients, l, idx, share) ==
  IF idx = Len(coefficients) THEN share
  ELSE polynomial_loop_ExtraMul(coefficients, l, idx + 1,
         FMul(FAdd(share, coefficients[Len(coefficients) - idx]), l))

polynomial_ExtraMul(coefficients, l) == polynomial_loop_ExtraMul(coefficients, FFrom(l), 0, 0)

polynomial(coefficients, l) == polynomial_loop(coefficients, FFrom(l), 0, 0)

\* generate_key_r2 putting the party's own share into the map to send
generate_key_r2_WithOwnShare(params, context, coefficients, our_commitments, commitments) ==
  LET verified == verify_r1(params, context, our_commitments, commitments)
  IN IF ~IsOk(verified) THEN verified
     ELSE Ok([ share |-> polynomial(coefficients, params.i),
               commitments |-> verified.val,
               res |-> Collect([l \in 1 .. params.n |->
                                  F_to_bytes(polynomial(coefficients, l))]) ])

generate_key_r2(params, context, coefficients, our_commitments, commitments) ==
  LET verified == verify_r1(params, context, our_commitments, commitments)
  IN IF ~IsOk(verified) THEN verified
     ELSE Ok([ share |-> polynomial(coefficients, params.i),
               commitments |-> verified.val,
               res |-> Collect([l \in (1 .. params.n) \ {params.i} |->
                                  F_to_bytes(polynomial(coefficients, l))]) ])

\* Option
None == << >>
Some(x) == << x >>
IsSome(o) == o # << >>
\* unwrap_or
UnwrapOr(o, d) == IF o = << >> THEN d ELSE o[1]

\* the first loop of complete_r2, over the map in iteration order: the decoded shares
RECURSIVE decode_shares(_, _, _, _)
decode_shares(serialized, order, k, shares) ==
  IF k > Len(order) THEN Ok(shares)
  ELSE LET l == order[k]
           share == F_from_slice(serialized[l])
       IN IF IsErr(share) THEN Err("InvalidShare", l)
          ELSE decode_shares(serialized, order, k + 1, MapInsert(shares, l, share.val))

\* exponential taking the powers of the party's own index in place of those of i
exponential_OwnIndex(params, i, values) ==
  [k \in 1 .. params.t |-> << Pow(FFrom(params.i), k - 1, Q), values[k] >>]

\* the closure exponential of complete_r2: << i^0, values[0] >>, ..., << i^(t-1), values[t-1] >>
exponential(params, i, values) ==
  [k \in 1 .. params.t |-> << Pow(FFrom(i), k - 1, Q), values[k] >>]

\* the senders' statements collapsed into one, queued under the first sender
queue_shares_Collapsed(params, commitments, shares, order) ==
  LET senders == SelectSeq(order, LAMBDA l : l # params.i)
  IN IF senders = << >> THEN << >>
     ELSE << [ id |-> senders[1],
               values |->
                 Concat([ k \in DOMAIN senders |->
                            Append(exponential(params, params.i, commitments[senders[k]]),
                                   << FNeg(shares[senders[k]]), GENERATOR >>) ]) ] >>

\* the statements queued by the second loop of complete_r2, one per sender other than
\* ourselves, in iteration order
queue_shares(params, commitments, shares, order) ==
  LET senders == SelectSeq(order, LAMBDA l : l # params.i)
  IN [ k \in DOMAIN senders |->
         [ id |-> senders[k],
           values |-> Append(exponential(params, params.i, commitments[senders[k]]),
                             << FNeg(shares[senders[k]]), GENERATOR >>) ] ]

\* the sum of the other senders' shares, without ours
sum_shares_PeersOnly(params, secret_share, shares) ==
  LET senders == SelectSeq(RangeInclusive(params.n), LAMBDA l : l # params.i)
  IN FSum([k \in DOMAIN senders |-> shares[senders[k]]])

\* the secret share after the second loop: ours plus every other sender's
sum_shares(params, secret_share, shares) ==
  LET senders == SelectSeq(RangeInclusive(params.n), LAMBDA l : l # params.i)
  IN FAdd(secret_share, FSum([k \in DOMAIN senders |-> shares[senders[k]]]))

\* order1 and order2 are the orders in which the two loops iterate their HashMaps
complete_r2(params, secret_share, commitments, serialized, order1, order2) ==
  LET validated == validate_map(serialized, RangeInclusive(params.n),
                                << params.i, F_to_bytes(secret_share) >>)
      decoded == decode_shares(validated.map, order1, 1, EmptyMap)
      shares == decoded.val
      summed == sum_shares(params, secret_share, shares)
      batch == BatchVerifier_verify_with_blame(
                 queue_shares(params, commitments, shares, order2))
      stripes == Collect([k \in 1 .. params.t |->
                            GSum([l \in 1 .. params.n |-> commitments[l][k]])])
      verification_shares ==
        Collect([i \in 1 .. params.n |->
                   multiexp_vartime(exponential(params, i, stripes))])
  IN IF IsErr(validated.res) THEN validated.res
     ELSE IF IsErr(decoded) THEN decoded
     ELSE IF IsErr(batch) THEN Err("InvalidCommitment", batch.l)
     ELSE IF GMul(GENERATOR_TABLE, summed) # verification_shares[params.i]
       THEN Panic("debug_assert_eq")
     ELSE Ok([ params |-> params,
               secret_share |-> summed,
               group_key |-> stripes[1],
               verification_shares |-> verification_shares,
               offset |-> None ])

(***************************************************************************)
(* MultisigKeys (lib.rs)                                                   *)
(***************************************************************************)
\* offset moving the group key without recording the offset
offset_KeyOnly(keys, offset_) ==
  [ keys EXCEPT !.group_key = GAdd(keys.group_key, GMul(GENERATOR_TABLE, offset_)) ]

\* offset recording the last offset in place of the sum of the offsets
offset_Replaces(keys, offset_) ==
  [ keys EXCEPT !.offset = Some(offset_),
                !.group_key = GAdd(keys.group_key, GMul(GENERATOR_TABLE, offset_)) ]

offset(keys, offset_) ==
  [ keys EXCEPT !.offset = Some(FAdd(offset_, UnwrapOr(keys.offset, 0))),
                !.group_key = GAdd(keys.group_key, GMul(GENERATOR_TABLE, offset_)) ]

\* view leaving the party's own share without its Lagrange coefficient
view_Unweighted(keys, included) ==
  IF (Len(included) < keys.params.t) \/ (keys.params.n < Len(included))
    THEN Err("InvalidSigningSet", "invalid amount of participants included")
  ELSE
    LET offset_ == UnwrapOr(keys.offset, 0)
        offset_share == FMul(offset_, FInvert(FFrom(Len(included))))
    IN Ok([ group_key |-> keys.group_key,
            secret_share |-> FAdd(keys.secret_share, offset_share),
            verification_shares |->
              Collect([ l \in DOMAIN keys.verification_shares |->
                          GAdd(GMul(keys.verification_shares[l], lagrange(l, included)),
                               GMul(GENERATOR_TABLE, offset_share)) ]),
            included |-> included ])

\* view refusing an included list of exactly t parties
view_AboveThreshold(keys, included) ==
  IF (Len(included) <= keys.params.t) \/ (keys.params.n < Len(included))
    THEN Err("InvalidSigningSet", "invalid amount of participants included")
  ELSE
    LET offset_ == UnwrapOr(keys.offset, 0)
        offset_share == FMul(offset_, FInvert(FFrom(Len(included))))
    IN Ok([ group_key |-> keys.group_key,
            secret_share |-> FAdd(FMul(keys.secret_share,
                                       lagrange(keys.params.i, included)), offset_share),
            verification_shares |->
              Collect([ l \in DOMAIN keys.verification_shares |->
                          GAdd(GMul(keys.verification_shares[l], lagrange(l, included)),
                               GMul(GENERATOR_TABLE, offset_share)) ]),
            included |-> included ])

\* view leaving the offset out of the verification shares
view_UnshiftedShares(keys, included) ==
  IF (Len(included) < keys.params.t) \/ (keys.params.n < Len(included))
    THEN Err("InvalidSigningSet", "invalid amount of participants included")
  ELSE
    LET offset_ == UnwrapOr(keys.offset, 0)
        offset_share == FMul(offset_, FInvert(FFrom(Len(included))))
    IN Ok([ group_key |-> keys.group_key,
            secret_share |-> FAdd(FMul(keys.secret_share,
                                       lagrange(keys.params.i, included)), offset_share),
            verification_shares |->
              Collect([ l \in DOMAIN keys.verification_shares |->
                          GMul(keys.verification_shares[l], lagrange(l, included)) ]),
            included |-> included ])

view(keys, included) ==
  IF (Len(included) < keys.params.t) \/ (keys.params.n < Len(included))
    THEN Err("InvalidSigningSet", "invalid amount of participants included")
  ELSE IF \E l \in DOMAIN keys.verification_shares \cup {keys.params.i} :
            lagrange_panics(l, included)
    THEN Panic("unwrap")
  ELSE IF ~FInvertible(FFrom(Len(included))) THEN Panic("unwrap")
  ELSE
    LET secret_share == FMul(keys.secret_share, lagrange(keys.params.i, included))
        offset_ == UnwrapOr(keys.offset, 0)
        offset_share == FMul(offset_, FInvert(FFrom(Len(included))))
    IN Ok([ group_key |-> keys.group_key,
            secret_share |-> FAdd(secret_share, offset_share),
            verification_shares |->
              Collect([ l \in DOMAIN keys.verification_shares |->
                          GAdd(GMul(keys.verification_shares[l], lagrange(l, included)),
                               GMul(GENERATOR_TABLE, offset_share)) ]),
            included |-> included ])

\* C::ID, and the be64 of its length, one cell each
CurveID == 6
CurveIDLen == 9

\* the cells of 8 + C::ID.len() bytes
HeaderLen == 2
\* the cells of one u16
U16Len == 1

serialized_len(n) == HeaderLen + (3 * U16Len) + F_len + G_len + (n * G_len)

\* serialize writing the index i ahead of the number of participants n
serialize_IndexFirst(keys) ==
  << CurveIDLen, CurveID >>
    \o u16_to_be_bytes(keys.params.t)
    \o u16_to_be_bytes(keys.params.i)
    \o u16_to_be_bytes(keys.params.n)
    \o F_to_bytes(keys.secret_share)
    \o G_to_bytes(keys.group_key)
    \o Concat([l \in 1 .. keys.params.n |-> G_to_bytes(keys.verification_shares[l])])

serialize(keys) ==
  << CurveIDLen, CurveID >>
    \o u16_to_be_bytes(keys.params.t)
    \o u16_to_be_bytes(keys.params.n)
    \o u16_to_be_bytes(keys.params.i)
    \o F_to_bytes(keys.secret_share)
    \o G_to_bytes(keys.group_key)
    \o Concat([l \in 1 .. keys.params.n |-> G_to_bytes(keys.verification_shares[l])])

\* u16::from_be_bytes
u16_from_be_bytes(bytes) == bytes[1]

\* the loop of deserialize over l = 1 ..= n, from l on
RECURSIVE deserialize_shares(_, _, _, _, _)
deserialize_shares(serialized, cursor, n, l, verification_shares) ==
  IF l > n THEN Ok(verification_shares)
  ELSE IF ~SliceOk(serialized, cursor, cursor + G_len) THEN Panic("slice")
  ELSE LET share == G_from_slice(Slice(serialized, cursor, cursor + G_len))
       IN IF IsErr(share) THEN Err("InternalError", "invalid verification share")
          ELSE deserialize_shares(serialized, cursor + G_len, n, l + 1,
                                  MapInsert(verification_shares, l, share.val))

\* deserialize from the read of t on, the header having been checked
deserialize_body(serialized, cursor) ==
  IF ~SliceOk(serialized, cursor, cursor + (2 * U16Len)) THEN Panic("slice")
  ELSE
    LET t == u16_from_be_bytes(Slice(serialized, cursor, cursor + U16Len))
        n == u16_from_be_bytes(Slice(serialized, cursor + U16Len, cursor + (2 * U16Len)))
        at_i == cursor + (2 * U16Len)
        at_secret == at_i + U16Len
        at_group == at_secret + F_len
        at_shares == at_group + G_len
    IN IF Len(serialized) # serialized_len(n)
         THEN Err("InternalError", "incorrect serialization length")
       ELSE IF ~SliceOk(serialized, at_i, at_shares) THEN Panic("slice")
       ELSE
         LET i == u16_from_be_bytes(Slice(serialized, at_i, at_i + U16Len))
             secret_share == F_from_slice(Slice(serialized, at_secret, at_secret + F_len))
             group_key == G_from_slice(Slice(serialized, at_group, at_group + G_len))
             verification_shares ==
               deserialize_shares(serialized, at_shares, n, 1, EmptyMap)
             params == MultisigParams_new(t, n, i)
         IN IF IsErr(secret_share) THEN Err("InternalError", "invalid secret share")
            ELSE IF IsErr(group_key) THEN Err("InternalError", "invalid group key")
            ELSE IF ~IsOk(verification_shares) THEN verification_shares
            ELSE IF IsErr(params) THEN Err("InternalError", "invalid parameters")
            ELSE Ok([ params |-> params.val,
                      secret_share |-> secret_share.val,
                      group_key |-> group_key.val,
                      verification_shares |-> verification_shares.val,
                      offset |-> None ])

deserialize(serialized) ==
  LET start == << CurveIDLen, CurveID >>
      cursor == Len(start)
  IN IF Len(serialized) < cursor + (2 * U16Len)
       THEN Err("InternalError",
                "MultisigKeys serialization is missing its curve/participant quantities")
     ELSE IF start # Slice(serialized, 0, cursor)
       THEN Err("InternalError",
                "curve is distinct between serialization and deserialization")
     ELSE deserialize_body(serialized, cursor)

\* the machines, by the type that holds the session
KeyGenMachine_new(params, context) ==
  [ state |-> "KeyGenMachine", params |-> params, context |-> context ]

\* a machine moved into a call that returned no successor
Consumed == [ state |-> "Consumed" ]

NoResult == [ tag |-> "None" ]

(***************************************************************************)
(* Curve: nonces, binding factors, challenges (kp256.rs)                   *)
(***************************************************************************)
\* the tags of random_nonce, hash_binding_factor and Hram: CONTEXT || "nonce",
\* CONTEXT || "rho", CONTEXT || "chal"
DST_nonce == 17
DST_rho == 19
DST_chal == 23

\* rng.fill_bytes: the k-th draw of the rng as bytes
rng_fill_bytes(seed, k) == << F_random(seed, k) >>

random_nonce(secret, seed, k) ==
  hash_to_F(DST_nonce, rng_fill_bytes(seed, k) \o F_to_bytes(secret))

hash_binding_factor(binding) == hash_to_F(DST_rho, binding)

Hram(R, A, m) == hash_to_F(DST_chal, G_to_bytes(R) \o G_to_bytes(A) \o m)

(***************************************************************************)
(* The Schnorr algorithm (algorithm.rs)                                    *)
(***************************************************************************)
Schnorr_new == [ name |-> "Schnorr", c |-> None ]

Schnorr_context(algorithm) == << >>

Schnorr_addendum_commit_len == 0

Schnorr_preprocess_addendum(seed, view_, nonces) == << >>

Schnorr_process_addendum(algorithm, view_, l, commitments, p, serialized) ==
  [ self |-> algorithm, res |-> Ok(<< >>) ]

\* z_i = (d + rho_i e) + lambda_i x_i c, with c = Hram(R, group_key, msg)
Schnorr_sign_share(algorithm, view_, nonce_sum, nonce, msg) ==
  LET c == Hram(nonce_sum, view_.group_key, msg)
  IN [ algorithm |-> [algorithm EXCEPT !.c = Some(c)],
       share |-> sign(view_.secret_share, nonce, c).s ]

Schnorr_verify(algorithm, group_key, nonce, sum) ==
  LET signature == [ R |-> nonce, s |-> sum ]
  IN IF verify(group_key, algorithm.c[1], signature) THEN Some(signature) ELSE None

Schnorr_verify_share(algorithm, verification_share, nonce, share) ==
  verify(verification_share, algorithm.c[1], [ R |-> nonce, s |-> share ])

(***************************************************************************)
(* CLSAG: the parts the algorithm calls (clsag/mod.rs, frost.rs)           *)
(***************************************************************************)
\* the tags of hash_to_point, of the DLEq challenge, of the CLSAG round hash and of
\* the two aggregation hashes
DST_hash_to_point == 29
DST_DLEq == 31
DST_CLSAG_round == 37
DST_CLSAG_agg_0 == 41
DST_CLSAG_agg_1 == 43

\* a second generator, whose discrete logarithm nobody knows
hash_to_point(point) ==
  GMul(GENERATOR, 1 + (Mix(DST_hash_to_point, G_to_bytes(point)) % (Q - 1)))

\* the Chaum-Pedersen challenge over the two commitments and the two statements
DLEq_challenge(H, R1, R2, primary, alt) ==
  hash_to_F(DST_DLEq, G_to_bytes(R1) \o G_to_bytes(R2) \o G_to_bytes(primary)
                        \o G_to_bytes(alt))

\* DLEqProof::prove(rng, secret, H, alt) and serialize: s || c
DLEqProof_prove(seed, k, secret, H, alt) ==
  LET r == F_random(seed, k)
      c == DLEq_challenge(H, GMul(GENERATOR_TABLE, r), GMul(H, r),
                          GMul(GENERATOR_TABLE, secret), alt)
  IN F_to_bytes(FAdd(r, FMul(c, secret))) \o F_to_bytes(c)

\* DLEqProof::deserialize: two canonical scalars, or None
DLEqProof_deserialize(serialized) ==
  IF Len(serialized) # 2 * F_len THEN None
  ELSE LET s == F_from_slice(Slice(serialized, 0, F_len))
           c == F_from_slice(Slice(serialized, F_len, 2 * F_len))
       IN IF IsErr(s) \/ IsErr(c) THEN None ELSE Some([ s |-> s.val, c |-> c.val ])

\* DLEqProof::verify(H, primary, alt)
DLEqProof_verify(proof, H, primary, alt) ==
  proof.c = DLEq_challenge(H,
                           GSub(GMul(GENERATOR_TABLE, proof.s), GMul(primary, proof.c)),
                           GSub(GMul(H, proof.s), GMul(alt, proof.c)),
                           primary, alt)

\* SignableInput for spending the output of the group key: a ring of the one member
\* << key, commitment >>, the signer's place in it, the key image, and the mask of
\* the commitment
SignableInput_new(group_key, group_secret) ==
  [ ring |-> << << group_key, GMul(GENERATOR, 2) >> >>,
    i |-> 1,
    image |-> GMul(hash_to_point(group_key), group_secret),
    mask |-> 2 ]

SignableInput_context(input) ==
  Concat([k \in 1 .. Len(input.ring) |->
            G_to_bytes(input.ring[k][1]) \o G_to_bytes(input.ring[k][2])])
    \o << input.i >> \o G_to_bytes(input.image)

\* the aggregation coefficients mu_P and mu_C
CLSAG_mu(dst, input, D, C_out) ==
  hash_to_F(dst, SignableInput_context(input) \o G_to_bytes(D) \o G_to_bytes(C_out))

\* the round hash of the signer's place
CLSAG_round(msg, input, C_out, L, R) ==
  hash_to_F(DST_CLSAG_round, msg \o SignableInput_context(input) \o G_to_bytes(C_out)
                               \o G_to_bytes(L) \o G_to_bytes(R))

\* sign_core(rand_source, msg, input, mask, A, AH): the challenge c of the signer's
\* place from the nonce commitments A and AH, the coefficients, the difference z of
\* the masks, and the signature but for the signer's response
sign_core(rand_source, msg, input, mask, A, AH) ==
  LET z == FSub(input.mask, mask)
      C_out == GMul(GENERATOR, mask)
      D == GMul(hash_to_point(input.ring[input.i][1]), z)
      c == CLSAG_round(msg, input, C_out, A, AH)
  IN [ clsag |-> [ s |-> [k \in 1 .. Len(input.ring) |-> 0], c1 |-> c, D |-> D ],
       c |-> c,
       mu_C |-> CLSAG_mu(DST_CLSAG_agg_1, input, D, C_out),
       z |-> z,
       mu_P |-> CLSAG_mu(DST_CLSAG_agg_0, input, D, C_out),
       C_out |-> C_out ]

\* the verifier of a CLSAG that is not a threshold one
CLSAG_verify(clsag, msg, image, ring, C_out, input) ==
  LET s == clsag.s[input.i]
      key == ring[input.i][1]
      commitment == ring[input.i][2]
      H == hash_to_point(key)
      mu_P == CLSAG_mu(DST_CLSAG_agg_0, input, clsag.D, C_out)
      mu_C == CLSAG_mu(DST_CLSAG_agg_1, input, clsag.D, C_out)
      L == GAdd(GMul(GENERATOR, s),
                GMul(GAdd(GMul(key, mu_P), GMul(GSub(commitment, C_out), mu_C)), clsag.c1))
      R == GAdd(GMul(H, s),
                GMul(GAdd(GMul(image, mu_P), GMul(clsag.D, mu_C)), clsag.c1))
  IN CLSAG_round(msg, input, C_out, L, R) = clsag.c1

(***************************************************************************)
(* The CLSAG algorithm (clsag/multisig.rs)                                 *)
(***************************************************************************)
\* the tags of the Blake2b512 digests: "clsag_randomness" || b, and the digest of
\* the digest
DST_clsag_randomness == 47
DST_Blake2b512 == 53

\* the cells of the 192 bytes of an addendum, 32 bytes a cell
AddendumLen == 6

\* usize::to_le_bytes: the 8 bytes of a usize, 2 bytes a cell
usize_to_le_bytes(l) == << l, 0, 0, 0 >>

Multisig_new(msg, input) ==
  [ name |-> "CLSAG", b |-> << >>, AH |-> IDENTITY, msg |-> msg, input |-> input,
    interim |-> None ]

Multisig_context(algorithm) ==
  algorithm.msg \o SignableInput_context(algorithm.input)

\* the cells of the 64 bytes it returns
Multisig_addendum_commit_len == 2

\* preprocess_addendum returning the two points alone, as many cells as
\* addendum_commit_len
Multisig_preprocess_addendum_PointsOnly(seed, view_, nonces) ==
  LET H == hash_to_point(view_.group_key)
  IN G_to_bytes(GMul(H, nonces[1])) \o G_to_bytes(GMul(H, nonces[2]))

Multisig_preprocess_addendum(seed, view_, nonces) ==
  LET H == hash_to_point(view_.group_key)
      h0 == GMul(H, nonces[1])
      h1 == GMul(H, nonces[2])
  IN G_to_bytes(h0) \o G_to_bytes(h1)
       \o DLEqProof_prove(seed, 2, nonces[1], H, h0)
       \o DLEqProof_prove(seed, 3, nonces[2], H, h1)

\* process_addendum adding e_l * H to the accumulator without the binding factor
Multisig_process_addendum_UnboundAccumulator(algorithm, view_, l, commitments, p, serialized) ==
  IF Len(serialized) # AddendumLen
    THEN [ self |-> algorithm,
           res |-> Err("InvalidCommitmentQuantity", << l, 6, Len(serialized) >>) ]
  ELSE
    LET alt == hash_to_point(algorithm.input.ring[algorithm.input.i][1])
        h0 == G_from_slice(Slice(serialized, 0, 1))
        proof0 == DLEqProof_deserialize(Slice(serialized, 2, 4))
        h1 == G_from_slice(Slice(serialized, 1, 2))
        proof1 == DLEqProof_deserialize(Slice(serialized, 4, 6))
    IN IF IsErr(h0) THEN [ self |-> algorithm, res |-> Err("InvalidCommitment", l) ]
       ELSE IF proof0 = None THEN [ self |-> algorithm, res |-> Err("InvalidCommitment", l) ]
       ELSE IF ~DLEqProof_verify(proof0[1], alt, commitments[1], h0.val)
         THEN [ self |-> algorithm, res |-> Err("InvalidCommitment", l) ]
       ELSE IF IsErr(h1) THEN [ self |-> algorithm, res |-> Err("InvalidCommitment", l) ]
       ELSE IF proof1 = None THEN [ self |-> algorithm, res |-> Err("InvalidCommitment", l) ]
       ELSE IF ~DLEqProof_verify(proof1[1], alt, commitments[2], h1.val)
         THEN [ self |-> algorithm, res |-> Err("InvalidCommitment", l) ]
       ELSE [ self |-> [ algorithm EXCEPT
                           !.b = @ \o usize_to_le_bytes(l) \o Slice(serialized, 0, 2),
                           !.AH = GAdd(@, GAdd(h0.val, h1.val)) ],
              res |-> Ok(<< >>) ]

\* process_addendum extending the transcript before it checks the addendum
Multisig_process_addendum_EagerTranscript(algorithm, view_, l, commitments, p, serialized) ==
  IF Len(serialized) # AddendumLen
    THEN [ self |-> [ algorithm EXCEPT !.b = @ \o usize_to_le_bytes(l) ],
           res |-> Err("InvalidCommitmentQuantity", << l, 6, Len(serialized) >>) ]
  ELSE
    LET alt == hash_to_point(algorithm.input.ring[algorithm.input.i][1])
        h0 == G_from_slice(Slice(serialized, 0, 1))
        proof0 == DLEqProof_deserialize(Slice(serialized, 2, 4))
        h1 == G_from_slice(Slice(serialized, 1, 2))
        proof1 == DLEqProof_deserialize(Slice(serialized, 4, 6))
    IN IF IsErr(h0) THEN [ self |-> [ algorithm EXCEPT !.b = @ \o usize_to_le_bytes(l) ],
                             res |-> Err("InvalidCommitment", l) ]
       ELSE IF proof0 = None THEN [ self |-> [ algorithm EXCEPT !.b = @ \o usize_to_le_bytes(l) ],
                             res |-> Err("InvalidCommitment", l) ]
       ELSE IF ~DLEqProof_verify(proof0[1], alt, commitments[1], h0.val)
         THEN [ self |-> [ algorithm EXCEPT !.b = @ \o usize_to_le_bytes(l) ],
                             res |-> Err("InvalidCommitment", l) ]
       ELSE IF IsErr(h1) THEN [ self |-> [ algorithm EXCEPT !.b = @ \o usize_to_le_bytes(l) ],
                             res |-> Err("InvalidCommitment", l) ]
       ELSE IF proof1 = None THEN [ self |-> [ algorithm EXCEPT !.b = @ \o usize_to_le_bytes(l) ],
                             res |-> Err("InvalidCommitment", l) ]
       ELSE IF ~DLEqProof_verify(proof1[1], alt, commitments[2], h1.val)
         THEN [ self |-> [ algorithm EXCEPT !.b = @ \o usize_to_le_bytes(l) ],
                             res |-> Err("InvalidCommitment", l) ]
       ELSE [ self |-> [ algorithm EXCEPT
                           !.b = @ \o usize_to_le_bytes(l) \o Slice(serialized, 0, 2),
                           !.AH = GAdd(@, GAdd(h0.val, GMul(h1.val, p))) ],
              res |-> Ok(<< >>) ]

\* self is the algorithm after the call: every error returns before the three
\* assignments to self
Multisig_process_addendum(algorithm, view_, l, commitments, p, serialized) ==
  IF Len(serialized) # AddendumLen
    THEN [ self |-> algorithm,
           res |-> Err("InvalidCommitmentQuantity", << l, 6, Len(serialized) >>) ]
  ELSE
    LET alt == hash_to_point(algorithm.input.ring[algorithm.input.i][1])
        h0 == G_from_slice(Slice(serialized, 0, 1))
        proof0 == DLEqProof_deserialize(Slice(serialized, 2, 4))
        h1 == G_from_slice(Slice(serialized, 1, 2))
        proof1 == DLEqProof_deserialize(Slice(serialized, 4, 6))
    IN IF IsErr(h0) THEN [ self |-> algorithm, res |-> Err("InvalidCommitment", l) ]
       ELSE IF proof0 = None THEN [ self |-> algorithm, res |-> Err("InvalidCommitment", l) ]
       ELSE IF ~DLEqProof_verify(proof0[1], alt, commitments[1], h0.val)
         THEN [ self |-> algorithm, res |-> Err("InvalidCommitment", l) ]
       ELSE IF IsErr(h1) THEN [ self |-> algorithm, res |-> Err("InvalidCommitment", l) ]
       ELSE IF proof1 = None THEN [ self |-> algorithm, res |-> Err("InvalidCommitment", l) ]
       ELSE IF ~DLEqProof_verify(proof1[1], alt, commitments[2], h1.val)
         THEN [ self |-> algorithm, res |-> Err("InvalidCommitment", l) ]
       ELSE [ self |-> [ algorithm EXCEPT
                           !.b = @ \o usize_to_le_bytes(l) \o Slice(serialized, 0, 2),
                           !.AH = GAdd(@, GAdd(h0.val, GMul(h1.val, p))) ],
              res |-> Ok(<< >>) ]

\* sign_share deriving the randomness from the party's own share as well as from b
Multisig_sign_share_OwnRandomness(algorithm, view_, nonce_sum, nonce, msg) ==
  LET rand_source == Mix(DST_clsag_randomness, algorithm.b \o F_to_bytes(view_.secret_share))
      mask == 1 + (rand_source % (Q - 1))
      core == sign_core(Mix(DST_Blake2b512, << rand_source >>), algorithm.msg,
                        algorithm.input, mask, nonce_sum, algorithm.AH)
  IN [ algorithm |->
         [ algorithm EXCEPT !.interim =
             Some([ c |-> FMul(core.c, core.mu_P),
                    s |-> FMul(FMul(core.c, core.mu_C), core.z),
                    clsag |-> core.clsag,
                    C_out |-> core.C_out ]) ],
       share |-> FSub(nonce, FMul(FMul(core.c, core.mu_P), view_.secret_share)) ]

Multisig_sign_share(algorithm, view_, nonce_sum, nonce, msg) ==
  LET rand_source == Mix(DST_clsag_randomness, algorithm.b)
      mask == 1 + (rand_source % (Q - 1))
      core == sign_core(Mix(DST_Blake2b512, << rand_source >>), algorithm.msg,
                        algorithm.input, mask, nonce_sum, algorithm.AH)
  IN [ algorithm |->
         [ algorithm EXCEPT !.interim =
             Some([ c |-> FMul(core.c, core.mu_P),
                    s |-> FMul(FMul(core.c, core.mu_C), core.z),
                    clsag |-> core.clsag,
                    C_out |-> core.C_out ]) ],
       share |-> FSub(nonce, FMul(FMul(core.c, core.mu_P), view_.secret_share)) ]

Multisig_verify(algorithm, group_key, nonce_sum, sum) ==
  LET interim == algorithm.interim[1]
      clsag == [ interim.clsag EXCEPT !.s[algorithm.input.i] = FSub(sum, interim.s) ]
  IN IF CLSAG_verify(clsag, algorithm.msg, algorithm.input.image, algorithm.input.ring,
                     interim.C_out, algorithm.input)
       THEN Some(<< clsag, interim.C_out >>)
       ELSE None

\* verify_share adding the challenge term to the nonce in place of subtracting it
Multisig_verify_share_Adds(algorithm, verification_share, nonce, share) ==
  LET interim == algorithm.interim[1]
  IN GMul(GENERATOR_TABLE, share) = GAdd(nonce, GMul(verification_share, interim.c))

\* verify_share accepting every share
Multisig_verify_share_AcceptsAll(algorithm, verification_share, nonce, share) ==
  share \in F

Multisig_verify_share(algorithm, verification_share, nonce, share) ==
  LET interim == algorithm.interim[1]
  IN GMul(GENERATOR_TABLE, share) = GSub(nonce, GMul(verification_share, interim.c))

(***************************************************************************)
(* The algorithm of a machine, by its name (algorithm.rs: trait Algorithm) *)
(***************************************************************************)
Algorithm_context(algorithm) ==
  IF algorithm.name = "CLSAG" THEN Multisig_context(algorithm)
  ELSE Schnorr_context(algorithm)

Algorithm_preprocess_addendum(algorithm, seed, view_, nonces) ==
  IF algorithm.name = "CLSAG" THEN Multisig_preprocess_addendum(seed, view_, nonces)
  ELSE Schnorr_preprocess_addendum(seed, view_, nonces)

Algorithm_process_addendum(algorithm, view_, l, commitments, p, serialized) ==
  IF algorithm.name = "CLSAG"
    THEN Multisig_process_addendum(algorithm, view_, l, commitments, p, serialized)
  ELSE Schnorr_process_addendum(algorithm, view_, l, commitments, p, serialized)

Algorithm_sign_share(algorithm, view_, nonce_sum, nonce, msg) ==
  IF algorithm.name = "CLSAG"
    THEN Multisig_sign_share(algorithm, view_, nonce_sum, nonce, msg)
  ELSE Schnorr_sign_share(algorithm, view_, nonce_sum, nonce, msg)

Algorithm_verify(algorithm, group_key, nonce_sum, sum) ==
  IF algorithm.name = "CLSAG" THEN Multisig_verify(algorithm, group_key, nonce_sum, sum)
  ELSE Schnorr_verify(algorithm, group_key, nonce_sum, sum)

Algorithm_verify_share(algorithm, verification_share, nonce, share) ==
  IF algorithm.name = "CLSAG"
    THEN Multisig_verify_share(algorithm, verification_share, nonce, share)
  ELSE Schnorr_verify_share(algorithm, verification_share, nonce, share)

(***************************************************************************)
(* The sign machine (sign.rs)                                              *)
(***************************************************************************)
\* AlgorithmMachine::new: the machine of a party for one signature
AlgorithmMachine_new(algorithm, keys, included) ==
  LET v == view(keys, included)
  IN IF IsOk(v)
       THEN Ok([ state |-> "AlgorithmMachine",
                 params |-> [ algorithm |-> algorithm, keys |-> keys, view |-> v.val ] ])
       ELSE v

\* preprocess: two nonces, and the bytes to publish
preprocess(params, seed) ==
  LET nonces == << random_nonce(params.view.secret_share, seed, 0),
                   random_nonce(params.view.secret_share, seed, 1) >>
  IN [ nonces |-> nonces,
       serialized |->
         G_to_bytes(GMul(GENERATOR_TABLE, nonces[1]))
           \o G_to_bytes(GMul(GENERATOR_TABLE, nonces[2]))
           \o Algorithm_preprocess_addendum(params.algorithm, seed, params.view, nonces) ]

\* the first party of included, from its k-th on, whose commitments D, E do not parse;
\* 0 when all parse
RECURSIVE first_unparsed(_, _, _)
first_unparsed(commitments, included, k) ==
  IF k > Len(included) THEN 0
  ELSE LET bytes == commitments[included[k]]
       IN IF \/ Len(bytes) < 2 * G_len
             \/ IsErr(G_from_slice(Slice(bytes, 0, G_len)))
             \/ IsErr(G_from_slice(Slice(bytes, G_len, 2 * G_len)))
            THEN included[k]
          ELSE first_unparsed(commitments, included, k + 1)

\* process_addendum over the parties of included, from its k-th on
RECURSIVE process_addenda(_, _, _, _, _, _)
process_addenda(algorithm, view_, B, binding, commitments, k) ==
  IF k > Len(view_.included) THEN Ok(algorithm)
  ELSE LET l == view_.included[k]
           res == Algorithm_process_addendum(
                    algorithm, view_, l, B[l], binding[l],
                    Slice(commitments[l], 2 * G_len, Len(commitments[l])))
       IN IF IsOk(res.res)
            THEN process_addenda(res.self, view_, B, binding, commitments, k + 1)
            ELSE res.res

\* sign: the share of the party, given every party's preprocess
sign_with_share(params, our_preprocess, commitments_, msg) ==
  LET view_ == params.view
      included == view_.included
      i == params.keys.params.i
      validated == validate_map(commitments_, included, << i, our_preprocess.serialized >>)
      commitments == validated.map
  IN IF IsErr(validated.res) THEN validated.res
     ELSE IF first_unparsed(commitments, included, 1) # 0
       THEN Err("InvalidCommitment", first_unparsed(commitments, included, 1))
     ELSE
       LET B == Collect([ l \in DOMAIN commitments |->
                    << G_from_slice(Slice(commitments[l], 0, G_len)).val,
                       G_from_slice(Slice(commitments[l], G_len, 2 * G_len)).val >> ])
           transcript ==
             Algorithm_context(params.algorithm)
               \o Concat([k \in 1 .. Len(included) |->
                            u16_to_be_bytes(included[k])
                              \o G_to_bytes(B[included[k]][1])
                              \o G_to_bytes(B[included[k]][2])])
           binding == Collect([ l \in DOMAIN commitments |->
                          hash_binding_factor(u16_to_be_bytes(l) \o transcript) ])
           processed == process_addenda(params.algorithm, view_, B, binding, commitments, 1)
           R == GSum([k \in 1 .. Len(included) |->
                        GAdd(B[included[k]][1],
                             GMul(B[included[k]][2], binding[included[k]]))])
           nonce == FAdd(our_preprocess.nonces[1],
                         FMul(our_preprocess.nonces[2], binding[i]))
       IN IF IsErr(processed) THEN processed
          ELSE
            LET signed == Algorithm_sign_share(processed.val, view_, R, nonce, msg)
            IN Ok([ share |-> F_to_bytes(signed.share),
                    sign_params |-> [ algorithm |-> signed.algorithm,
                                      B |-> B,
                                      binding |-> binding,
                                      R |-> R,
                                      share |-> signed.share ] ])

\* the first party of included, from its k-th on, whose share does not decode or,
\* being a peer's, does not verify; 0 when there is none
RECURSIVE first_invalid_share(_, _, _, _)
first_invalid_share(params, sign_params, shares, k) ==
  IF k > Len(params.view.included) THEN 0
  ELSE LET l == params.view.included[k]
           part == F_from_slice(shares[l])
       IN IF IsErr(part) THEN l
          ELSE IF /\ l # params.keys.params.i
                  /\ ~Algorithm_verify_share(
                        sign_params.algorithm,
                        params.view.verification_shares[l],
                        GAdd(sign_params.B[l][1],
                             GMul(sign_params.B[l][2], sign_params.binding[l])),
                        part.val)
            THEN l
          ELSE first_invalid_share(params, sign_params, shares, k + 1)

\* complete: the signature, given every party's share
complete(params, sign_params, shares_) ==
  LET included == params.view.included
      i == params.keys.params.i
      validated == validate_map(shares_, included, << i, F_to_bytes(sign_params.share) >>)
      shares == validated.map
  IN IF IsErr(validated.res) THEN validated.res
     ELSE IF first_invalid_share(params, sign_params, shares, 1) # 0
       THEN Err("InvalidShare", first_invalid_share(params, sign_params, shares, 1))
     ELSE
       LET sum == FSum([k \in 1 .. Len(included) |->
                          F_from_slice(shares[included[k]]).val])
           res == Algorithm_verify(sign_params.algorithm, params.view.group_key,
                                   sign_params.R, sum)
       IN IF IsSome(res) THEN Ok(res[1])
          ELSE Err("InternalError",
                   "everyone had a valid share yet the signature was still invalid")

VARIABLES
  \* MultisigParams::new: the last call's arguments and what it returned
  new_args, new_result,
  \* key generation: the session (t, n, every party's rng seed)
  session,
  \* every party's machine
  machine,
  \* the round 1 broadcasts on the wire, by sender
  round1,
  \* the round 2 shares on the wire, by sender and by recipient
  round2,
  \* what every party's last call returned
  returned,
  \* persistence: the keys their holder has, offset or not
  held,
  \* the serialization at rest, if the keys were serialized, as the reader finds it
  wire,
  \* how many times the serialization was altered at rest
  corruptions,
  \* what deserialize returned
  restored,
  \* signing: the session (t, n, the seed of the rngs, the offset of the keys, the
  \* party i whose machine runs, the included parties, the message, the algorithm)
  sign_session,
  \* every party's keys
  keyring,
  \* the machine of party i
  signer,
  \* the preprocesses published, by party
  preprocesses,
  \* the shares published, by party
  shares,
  \* the peer whose share is not the one its machine made, if any
  faulty,
  \* the last call on the machine of party i, and what it returned
  signed,
  \* key generation among peers that may be faulty: the session (t, n, the seed of
  \* the rngs, the party i whose machine runs)
  fault_session,
  \* the machine of party i
  victim,
  \* the round 1 received1 party i received2, by sender
  received1,
  \* the peer whose broadcast is not the one its machine made, if any
  forged,
  \* the round 2 shares party i received2, by sender
  received2,
  \* the senders whose share is not the one their machine made
  unsound,
  \* the last call on the machine of party i, and what it returned
  outcome,
  \* offsets: the keys a party holds from key generation
  subject,
  \* the offsets applied to them one after the other
  offsets,
  \* the keys the last offset returned
  offset_keys,
  \* views: the keys view is called on
  view_keys,
  \* the last call of view: the included list passed, and what it returned
  viewed,
  \* a call of a function of the library: its arguments, and what it returned
  call_args,
  call_result

paramsVars == << new_args, new_result >>
dkgVars == << session, machine, round1, round2, returned >>
keysVars == << held, wire, corruptions, restored >>
signVars == << sign_session, keyring, signer, preprocesses, shares, faulty, signed >>
faultVars == << fault_session, victim, received1, forged, received2, unsound, outcome >>
offsetVars == << subject, offsets, offset_keys >>
viewVars == << view_keys, viewed >>
callVars == << call_args, call_result >>
vars == << paramsVars, dkgVars, keysVars, signVars, faultVars, offsetVars, viewVars,
           callVars >>

\* the variables each specification leaves alone
exceptParams == << dkgVars, keysVars, signVars, faultVars, offsetVars, viewVars, callVars >>
exceptDkg == << paramsVars, keysVars, signVars, faultVars, offsetVars, viewVars, callVars >>
exceptKeys == << paramsVars, dkgVars, signVars, faultVars, offsetVars, viewVars, callVars >>
exceptSign == << paramsVars, dkgVars, keysVars, faultVars, offsetVars, viewVars, callVars >>
exceptFault == << paramsVars, dkgVars, keysVars, signVars, offsetVars, viewVars, callVars >>
exceptOffset == << paramsVars, dkgVars, keysVars, signVars, faultVars, viewVars, callVars >>
exceptView == << paramsVars, dkgVars, keysVars, signVars, faultVars, offsetVars, callVars >>
exceptCall == << paramsVars, dkgVars, keysVars, signVars, faultVars, offsetVars, viewVars >>

ParamsIdle == new_args = << >> /\ new_result = << >>
DkgIdle ==
  /\ session = << >>
  /\ machine = << >>
  /\ round1 = << >>
  /\ round2 = << >>
  /\ returned = << >>
KeysIdle ==
  /\ held = << >>
  /\ wire = << >>
  /\ corruptions = 0
  /\ restored = << >>
SignIdle ==
  /\ sign_session = << >>
  /\ keyring = << >>
  /\ signer = << >>
  /\ preprocesses = << >>
  /\ shares = << >>
  /\ faulty = << >>
  /\ signed = << >>
FaultIdle ==
  /\ fault_session = << >>
  /\ victim = << >>
  /\ received1 = << >>
  /\ forged = << >>
  /\ received2 = << >>
  /\ unsound = {}
  /\ outcome = << >>
\* no keys offset, no view taken, no function called
LibraryIdle ==
  /\ subject = << >>
  /\ offsets = << >>
  /\ offset_keys = << >>
  /\ view_keys = << >>
  /\ viewed = << >>
  /\ call_args = << >>
  /\ call_result = << >>

(***************************************************************************)
(* Specification of MultisigParams::new                                    *)
(***************************************************************************)
ParamsInit ==
  ParamsIdle /\ DkgIdle /\ KeysIdle /\ SignIdle /\ FaultIdle /\ LibraryIdle

\* MultisigParams::new(t, n, i)
New(t, n, i) ==
  /\ new_args' = << t, n, i >>
  /\ new_result' = MultisigParams_new(t, n, i)
  /\ UNCHANGED exceptParams

ParamsNext ==
  \E t \in 0 .. MaxU16, n \in 0 .. MaxU16, i \in 0 .. MaxU16 : New(t, n, i)

SpecParams == ParamsInit /\ [][ParamsNext]_vars

(***************************************************************************)
(* Specification of key generation among n parties                         *)
(***************************************************************************)
Sessions ==
  { [t |-> t, n |-> n, seeds |-> seeds] :
      t \in 1 .. MaxN, n \in 1 .. MaxN, seeds \in UNION { [1 .. m -> 1 .. MaxSeed] : m \in 1 .. MaxN } }

DkgInit ==
  /\ ParamsIdle
  /\ KeysIdle
  /\ SignIdle
  /\ FaultIdle
  /\ LibraryIdle
  /\ session \in { s \in Sessions : s.t <= s.n /\ DOMAIN s.seeds = 1 .. s.n }
  /\ machine = [i \in 1 .. session.n |->
                  KeyGenMachine_new(MultisigParams_new(session.t, session.n, i).val,
                                    DkgContext)]
  /\ round1 = EmptyMap
  /\ round2 = EmptyMap
  /\ returned = [i \in 1 .. session.n |-> NoResult]

\* KeyGenMachine::generate_coefficients at party i
GenerateCoefficients(i) ==
  /\ machine[i].state = "KeyGenMachine"
  /\ \E r1 \in { generate_key_r1(session.seeds[i], machine[i].params,
                                    machine[i].context) } :
        /\ machine' = [machine EXCEPT ![i] =
                         [ state |-> "SecretShareMachine",
                           params |-> machine[i].params,
                           context |-> machine[i].context,
                           coefficients |-> r1.coefficients,
                           our_commitments |-> r1.serialized ]]
        /\ round1' = MapInsert(round1, i, r1.serialized)
        /\ returned' = [returned EXCEPT ![i] = Ok(r1.serialized)]
  /\ UNCHANGED << session, round2, exceptDkg >>

\* SecretShareMachine::generate_secret_shares at party i, given the other parties'
\* broadcasts
GenerateSecretShares(i) ==
  /\ machine[i].state = "SecretShareMachine"
  /\ DOMAIN round1 = 1 .. session.n
  /\ \E r2 \in { generate_key_r2(machine[i].params, machine[i].context,
                                    machine[i].coefficients, machine[i].our_commitments,
                                    MapRemove(round1, i)) } :
        IF IsOk(r2)
          THEN /\ machine' = [machine EXCEPT ![i] =
                                [ state |-> "KeyMachine",
                                  params |-> machine[i].params,
                                  secret |-> r2.val.share,
                                  commitments |-> r2.val.commitments ]]
               /\ round2' = MapInsert(round2, i, r2.val.res)
               /\ returned' = [returned EXCEPT ![i] = Ok(r2.val.res)]
          ELSE /\ machine' = [machine EXCEPT ![i] = Consumed]
               /\ round2' = round2
               /\ returned' = [returned EXCEPT ![i] = r2]
  /\ UNCHANGED << session, round1, exceptDkg >>

\* KeyMachine::complete at party i, given the shares the other parties sent it
Complete(i) ==
  /\ machine[i].state = "KeyMachine"
  /\ (1 .. session.n) \ {i} \subseteq DOMAIN round2
  /\ \E order1 \in IterationOrders(1 .. session.n),
        order2 \in IterationOrders(1 .. session.n) :
       /\ machine' = [machine EXCEPT ![i] = Consumed]
       /\ returned' = [returned EXCEPT ![i] =
            complete_r2(machine[i].params, machine[i].secret, machine[i].commitments,
                        [l \in (1 .. session.n) \ {i} |-> round2[l][i]],
                        order1, order2)]
  /\ UNCHANGED << session, round1, round2, exceptDkg >>

DkgNext ==
  \E i \in 1 .. session.n :
    \/ GenerateCoefficients(i)
    \/ GenerateSecretShares(i)
    \/ Complete(i)

SpecDkg == DkgInit /\ [][DkgNext]_vars

(***************************************************************************)
(* Specification of the persistence of keys                                *)
(***************************************************************************)
\* every party's rng, seeded from the seed of the session
PartySeeds(seed, n) == [j \in 1 .. n |-> 1 + ((seed + j) % MaxSeed)]

\* every party's keys after the key generation of n honest parties with threshold t:
\* every party's machine run through its three calls
DkgKeyring(t, n, seeds) ==
  LET params(j) == MultisigParams_new(t, n, j).val
      r1 == Collect([j \in 1 .. n |-> generate_key_r1(seeds[j], params(j), DkgContext)])
      broadcasts == Collect([j \in 1 .. n |-> r1[j].serialized])
      r2 == Collect([j \in 1 .. n |->
                       generate_key_r2(params(j), DkgContext, r1[j].coefficients,
                                       r1[j].serialized, MapRemove(broadcasts, j)).val])
  IN Collect([i \in 1 .. n |->
                complete_r2(params(i), r2[i].share, r2[i].commitments,
                            Collect([l \in (1 .. n) \ {i} |-> r2[l].res[i]]),
                            Ascending(1 .. n), Ascending(1 .. n)).val])

\* the key generations: t of n parties, the rngs seeded from seed
KeyGenerations ==
  { c \in (1 .. MaxN) \X (1 .. MaxN) \X (1 .. MaxSeed) : c[1] <= c[2] }

\* the keys of the parties of the key generations
GeneratedKeys ==
  UNION { LET keys == DkgKeyring(c[1], c[2], PartySeeds(c[3], c[2]))
          IN { keys[l] : l \in 1 .. c[2] } : c \in KeyGenerations }

KeysInit ==
  /\ ParamsIdle
  /\ DkgIdle
  /\ SignIdle
  /\ FaultIdle
  /\ LibraryIdle
  /\ held \in GeneratedKeys
  /\ wire = None
  /\ corruptions = 0
  /\ restored = NoResult

\* MultisigKeys::offset on the keys held
OffsetKeys(offset_) ==
  /\ wire = None
  /\ held' = offset(held, offset_)
  /\ UNCHANGED << wire, corruptions, restored, exceptKeys >>

\* MultisigKeys::serialize on the keys held
Serialize ==
  /\ wire = None
  /\ wire' = Some(serialize(held))
  /\ UNCHANGED << held, corruptions, restored, exceptKeys >>

\* the serialization is altered at rest: a cell overwritten, the end cut off, or a
\* cell appended
Corrupt ==
  /\ wire # None
  /\ restored = NoResult
  /\ corruptions < MaxCorruptions
  /\ \E altered \in
          { [wire[1] EXCEPT ![k] = c] : k \in 1 .. Len(wire[1]), c \in Cell }
            \cup { SubSeq(wire[1], 1, k) : k \in 0 .. Len(wire[1]) - 1 }
            \cup { Append(wire[1], c) : c \in Cell } :
       /\ altered # wire[1]
       /\ wire' = Some(altered)
  /\ corruptions' = corruptions + 1
  /\ UNCHANGED << held, restored, exceptKeys >>

\* MultisigKeys::deserialize on the serialization
Deserialize ==
  /\ wire # None
  /\ restored = NoResult
  /\ restored' = deserialize(wire[1])
  /\ UNCHANGED << held, wire, corruptions, exceptKeys >>

KeysNext ==
  \/ \E offset_ \in F : OffsetKeys(offset_)
  \/ Serialize
  \/ Corrupt
  \/ Deserialize

SpecKeys == KeysInit /\ [][KeysNext]_vars

(***************************************************************************)
(* Specification of one signature: the machine of party i and its peers    *)
(***************************************************************************)
\* the messages signed
Msgs == { << m >> : m \in 1 .. MaxMsg }

\* the secret of the group of a key generation: the sum of the constant coefficients
DkgSecret(t, n, seeds) ==
  FSum([j \in 1 .. n |->
          generate_key_r1(seeds[j], MultisigParams_new(t, n, j).val,
                          DkgContext).coefficients[1]])

\* the included lists: the sets of at least t of the n parties, ascending
IncludedLists(t, n) ==
  { Ascending(S) : S \in { S \in SUBSET (1 .. n) : t <= Cardinality(S) } }

\* the algorithm of a session, as its constructor returns it
NewAlgorithm(name, msg, group_key, group_secret) ==
  IF name = "CLSAG" THEN Multisig_new(msg, SignableInput_new(group_key, group_secret))
  ELSE Schnorr_new

\* the offsets of the keys of a session: none, or any scalar
Offsets == {None} \cup { Some(d) : d \in F }

SignInit ==
  /\ ParamsIdle
  /\ DkgIdle
  /\ KeysIdle
  /\ FaultIdle
  /\ LibraryIdle
  /\ \E kg \in KeyGenerations :
       \E generated \in { DkgKeyring(kg[1], kg[2], PartySeeds(kg[3], kg[2])) },
          secret \in { DkgSecret(kg[1], kg[2], PartySeeds(kg[3], kg[2])) },
          o \in Offsets :
         \E keys \in { Collect([ l \in 1 .. kg[2] |->
                                   IF IsSome(o) THEN offset(generated[l], o[1])
                                   ELSE generated[l] ]) },
            included \in IncludedLists(kg[1], kg[2]),
            msg \in Msgs,
            name \in {"Schnorr", "CLSAG"} :
           \E k \in 1 .. Len(included) :
             /\ keyring = keys
             /\ sign_session =
                  [ t |-> kg[1], n |-> kg[2], seed |-> kg[3], secret |-> secret,
                    offset |-> o,
                    i |-> included[k], included |-> included, msg |-> msg,
                    algorithm |-> NewAlgorithm(name, msg, keys[1].group_key,
                                               FAdd(secret, UnwrapOr(o, 0))) ]
  /\ signer = AlgorithmMachine_new(sign_session.algorithm, keyring[sign_session.i],
                                   sign_session.included).val
  /\ preprocesses = EmptyMap
  /\ shares = EmptyMap
  /\ faulty = None
  /\ signed = NoResult

\* the parties included
Included == { sign_session.included[k] : k \in 1 .. Len(sign_session.included) }
Peers == Included \ {sign_session.i}

\* the machine of peer l, its preprocess and, given the preprocesses, its share
PeerParams(l) ==
  AlgorithmMachine_new(sign_session.algorithm, keyring[l], sign_session.included).val.params
PeerPreprocess(l) ==
  preprocess(PeerParams(l), PartySeeds(sign_session.seed, sign_session.n)[l])
PeerShare(l) ==
  sign_with_share(PeerParams(l), PeerPreprocess(l), preprocesses,
                  sign_session.msg).val.share

\* AlgorithmMachine::preprocess at party i
Preprocess ==
  /\ signer.state = "AlgorithmMachine"
  /\ \E our_preprocess \in
          { preprocess(signer.params,
                       PartySeeds(sign_session.seed, sign_session.n)[sign_session.i]) } :
        /\ signer' = [ state |-> "SignMachine", params |-> signer.params,
                       preprocess |-> our_preprocess ]
        /\ preprocesses' = MapInsert(preprocesses, sign_session.i, our_preprocess.serialized)
        /\ signed' = [ call |-> "preprocess", res |-> Ok(our_preprocess.serialized) ]
  /\ UNCHANGED << sign_session, keyring, shares, faulty, exceptSign >>

\* the peers preprocess and publish
PeersPreprocess ==
  /\ Peers # {}
  /\ Peers \cap DOMAIN preprocesses = {}
  /\ preprocesses' =
       Collect([ l \in DOMAIN preprocesses \cup Peers |->
                   IF l \in Peers THEN PeerPreprocess(l).serialized ELSE preprocesses[l] ])
  /\ UNCHANGED << sign_session, keyring, signer, shares, faulty, signed, exceptSign >>

\* sign leaving the machine, and with it the nonces of its preprocess, in place
Sign_KeepsPreprocess ==
  /\ signer.state = "SignMachine"
  /\ Included \subseteq DOMAIN preprocesses
  /\ \E res \in { sign_with_share(signer.params, signer.preprocess, preprocesses,
                                    sign_session.msg) } :
        /\ signed' = [ call |-> "sign",
                       res |-> IF IsOk(res) THEN Ok(res.val.share) ELSE res ]
        /\ signer' = signer
        /\ shares' = IF IsOk(res) THEN MapInsert(shares, sign_session.i, res.val.share)
                     ELSE shares
  /\ UNCHANGED << sign_session, keyring, preprocesses, faulty, exceptSign >>

\* SignMachine::sign at party i, given every party's preprocess
Sign ==
  /\ signer.state = "SignMachine"
  /\ Included \subseteq DOMAIN preprocesses
  /\ \E res \in { sign_with_share(signer.params, signer.preprocess, preprocesses,
                                    sign_session.msg) } :
        /\ signed' = [ call |-> "sign",
                       res |-> IF IsOk(res) THEN Ok(res.val.share) ELSE res ]
        /\ IF IsOk(res)
             THEN /\ signer' = [ state |-> "SignatureMachine", params |-> signer.params,
                                 sign_params |-> res.val.sign_params ]
                  /\ shares' = MapInsert(shares, sign_session.i, res.val.share)
             ELSE /\ signer' = Consumed
                  /\ shares' = shares
  /\ UNCHANGED << sign_session, keyring, preprocesses, faulty, exceptSign >>

\* what a faulty peer publishes for a share: bytes other than those its machine
\* made, be they another scalar, no canonical scalar, or not the bytes of one scalar
FaultyShares(honest) ==
  ({ F_to_bytes(x) : x \in F } \cup { << Q >>, << >>, honest \o honest }) \ { honest }

\* the peers sign and publish their shares, at most one of them a faulty one
PeersSign ==
  /\ Peers # {}
  /\ Included \subseteq DOMAIN preprocesses
  /\ Peers \cap DOMAIN shares = {}
  /\ \E honest \in { Collect([ l \in DOMAIN shares \cup Peers |->
                                   IF l \in Peers THEN PeerShare(l) ELSE shares[l] ]) } :
        \/ /\ faulty' = None
           /\ shares' = honest
        \/ \E f \in Peers : \E bytes \in FaultyShares(honest[f]) :
             /\ faulty' = Some(f)
             /\ shares' = [ honest EXCEPT ![f] = bytes ]
  /\ UNCHANGED << sign_session, keyring, signer, preprocesses, signed, exceptSign >>

\* SignatureMachine::complete at party i, given every party's share
SignComplete ==
  /\ signer.state = "SignatureMachine"
  /\ Included \subseteq DOMAIN shares
  /\ signed' = [ call |-> "complete",
                 res |-> complete(signer.params, signer.sign_params, shares) ]
  /\ signer' = Consumed
  /\ UNCHANGED << sign_session, keyring, preprocesses, shares, faulty, exceptSign >>

SignNext ==
  \/ Preprocess
  \/ PeersPreprocess
  \/ Sign
  \/ PeersSign
  \/ SignComplete

SpecSign == SignInit /\ [][SignNext]_vars

(***************************************************************************)
(* Specification of key generation at party i among peers that may be      *)
(* faulty                                                                  *)
(***************************************************************************)
FaultPeers == (1 .. fault_session.n) \ {fault_session.i}

\* what the machine of peer l makes in round 1
PeerRound1(l) ==
  generate_key_r1(PartySeeds(fault_session.seed, fault_session.n)[l],
                  MultisigParams_new(fault_session.t, fault_session.n, l).val, DkgContext)

\* the share the machine of peer l makes for party i, given every party's broadcast
PeerSecretShare(l, honest) ==
  generate_key_r2(MultisigParams_new(fault_session.t, fault_session.n, l).val, DkgContext,
                  PeerRound1(l).coefficients, honest[l],
                  MapRemove(honest, l)).val.res[fault_session.i]

\* what a faulty peer received1 in place of bytes: a cell overwritten, the end cut
\* off, or a cell appended
Forgeries(bytes) ==
  ({ [bytes EXCEPT ![k] = c] : k \in 1 .. Len(bytes), c \in Cell }
     \cup { SubSeq(bytes, 1, k) : k \in 0 .. Len(bytes) - 1 }
     \cup { Append(bytes, c) : c \in Cell }) \ { bytes }

FaultInit ==
  /\ ParamsIdle
  /\ DkgIdle
  /\ KeysIdle
  /\ SignIdle
  /\ LibraryIdle
  /\ \E kg \in KeyGenerations : \E i \in 1 .. kg[2] :
       fault_session = [ t |-> kg[1], n |-> kg[2], seed |-> kg[3], i |-> i ]
  /\ victim = KeyGenMachine_new(
                MultisigParams_new(fault_session.t, fault_session.n, fault_session.i).val,
                DkgContext)
  /\ received1 = None
  /\ forged = None
  /\ received2 = None
  /\ unsound = {}
  /\ outcome = NoResult

\* KeyGenMachine::generate_coefficients at party i
FaultGenerateCoefficients ==
  /\ victim.state = "KeyGenMachine"
  /\ \E r1 \in { generate_key_r1(
                    PartySeeds(fault_session.seed, fault_session.n)[fault_session.i],
                    victim.params, victim.context) } :
        /\ victim' = [ state |-> "SecretShareMachine",
                       params |-> victim.params,
                       context |-> victim.context,
                       coefficients |-> r1.coefficients,
                       our_commitments |-> r1.serialized ]
        /\ outcome' = [ call |-> "generate_coefficients", res |-> Ok(r1.serialized) ]
  /\ UNCHANGED << fault_session, received1, forged, received2, unsound, exceptFault >>

\* the peers' received1 reach party i, at most one of them not the one its sender's
\* machine made
PeersBroadcast ==
  /\ received1 = None
  /\ \E honest \in { Collect([ l \in FaultPeers |-> PeerRound1(l).serialized ]) } :
        \/ /\ forged' = None
           /\ received1' = Some(honest)
        \/ \E l \in FaultPeers : \E bytes \in Forgeries(honest[l]) :
             /\ forged' = Some(l)
             /\ received1' = Some([ honest EXCEPT ![l] = bytes ])
  /\ UNCHANGED << fault_session, victim, received2, unsound, outcome, exceptFault >>

\* generate_secret_shares leaving the machine in place when it fails
FaultGenerateSecretShares_KeepsMachine ==
  /\ victim.state = "SecretShareMachine"
  /\ received1 # None
  /\ \E r2 \in { generate_key_r2(victim.params, victim.context, victim.coefficients,
                                    victim.our_commitments, received1[1]) } :
        /\ victim' = IF IsOk(r2)
                       THEN [ state |-> "KeyMachine",
                              params |-> victim.params,
                              secret |-> r2.val.share,
                              commitments |-> r2.val.commitments ]
                     ELSE victim
        /\ outcome' = [ call |-> "generate_secret_shares",
                        res |-> IF IsOk(r2) THEN Ok(r2.val.res) ELSE r2 ]
  /\ UNCHANGED << fault_session, received1, forged, received2, unsound, exceptFault >>

\* SecretShareMachine::generate_secret_shares at party i
FaultGenerateSecretShares ==
  /\ victim.state = "SecretShareMachine"
  /\ received1 # None
  /\ \E r2 \in { generate_key_r2(victim.params, victim.context, victim.coefficients,
                                    victim.our_commitments, received1[1]) } :
        /\ victim' = IF IsOk(r2)
                       THEN [ state |-> "KeyMachine",
                              params |-> victim.params,
                              secret |-> r2.val.share,
                              commitments |-> r2.val.commitments ]
                     ELSE Consumed
        /\ outcome' = [ call |-> "generate_secret_shares",
                        res |-> IF IsOk(r2) THEN Ok(r2.val.res) ELSE r2 ]
  /\ UNCHANGED << fault_session, received1, forged, received2, unsound, exceptFault >>

\* the peers' shares reach party i, any of them not the one its sender's machine made
PeersSendShares ==
  /\ victim.state = "KeyMachine"
  /\ received2 = None
  /\ \E honest \in
          { LET sent == Collect([ l \in 1 .. fault_session.n |-> PeerRound1(l).serialized ])
            IN Collect([ l \in FaultPeers |-> PeerSecretShare(l, sent) ]) } :
        \E faulty_ \in SUBSET FaultPeers :
          \E bytes \in [ faulty_ -> UNION { FaultyShares(honest[l]) : l \in faulty_ } ] :
            /\ \A l \in faulty_ : bytes[l] # honest[l]
            /\ unsound' = faulty_
            /\ received2' = Some(Collect([ l \in FaultPeers |->
                                             IF l \in faulty_ THEN bytes[l] ELSE honest[l] ]))
  /\ UNCHANGED << fault_session, victim, received1, forged, outcome, exceptFault >>

\* KeyMachine::complete at party i
FaultComplete ==
  /\ victim.state = "KeyMachine"
  /\ received2 # None
  /\ \E order1 \in IterationOrders(1 .. fault_session.n),
        order2 \in IterationOrders(1 .. fault_session.n) :
       outcome' = [ call |-> "complete",
                    res |-> complete_r2(victim.params, victim.secret, victim.commitments,
                                        received2[1], order1, order2) ]
  /\ victim' = Consumed
  /\ UNCHANGED << fault_session, received1, forged, received2, unsound, exceptFault >>

FaultNext ==
  \/ FaultGenerateCoefficients
  \/ PeersBroadcast
  \/ FaultGenerateSecretShares
  \/ PeersSendShares
  \/ FaultComplete

SpecFault == FaultInit /\ [][FaultNext]_vars

(***************************************************************************)
(* Specification of MultisigKeys::offset applied time after time           *)
(***************************************************************************)
OffsetInit ==
  /\ ParamsIdle
  /\ DkgIdle
  /\ KeysIdle
  /\ SignIdle
  /\ FaultIdle
  /\ view_keys = << >>
  /\ viewed = << >>
  /\ call_args = << >>
  /\ call_result = << >>
  /\ subject \in GeneratedKeys
  /\ offsets = << >>
  /\ offset_keys = subject

\* MultisigKeys::offset on the keys the last offset returned
Offset(offset_) ==
  /\ Len(offsets) < MaxOffsets
  /\ offsets' = Append(offsets, offset_)
  /\ offset_keys' = offset(offset_keys, offset_)
  /\ UNCHANGED << subject, exceptOffset >>

OffsetNext == \E offset_ \in F : Offset(offset_)

SpecOffset == OffsetInit /\ [][OffsetNext]_vars

(***************************************************************************)
(* Specification of MultisigKeys::view                                     *)
(***************************************************************************)
\* the lists of length len over the indices of S
RECURSIVE Lists(_, _)
Lists(S, len) ==
  IF len = 0 THEN { << >> }
  ELSE { Append(list, l) : list \in Lists(S, len - 1), l \in S }

\* the included lists passed to view on keys of n parties: every list of up to n
\* indices of 1 .. n + 1, in any order and with repetitions, and lists of n + 1
IncludedArguments(n) ==
  UNION { Lists(1 .. n + 1, len) : len \in 0 .. n }
    \cup { [k \in 1 .. n + 1 |-> k], [k \in 1 .. n + 1 |-> 1] }

ViewInit ==
  /\ ParamsIdle
  /\ DkgIdle
  /\ KeysIdle
  /\ SignIdle
  /\ FaultIdle
  /\ subject = << >>
  /\ offsets = << >>
  /\ offset_keys = << >>
  /\ call_args = << >>
  /\ call_result = << >>
  /\ \E keys \in GeneratedKeys :
       view_keys \in {keys} \cup { offset(keys, offset_) : offset_ \in F }
  /\ viewed = NoResult

\* MultisigKeys::view(included)
View(included) ==
  /\ viewed = NoResult
  /\ viewed' = [ included |-> included, res |-> view(view_keys, included) ]
  /\ UNCHANGED << view_keys, exceptView >>

ViewNext ==
  /\ viewed = NoResult
  /\ \E included \in IncludedArguments(view_keys.params.n) : View(included)

SpecView == ViewInit /\ [][ViewNext]_vars

(***************************************************************************)
(* Specification of schnorr::batch_verify                                  *)
(***************************************************************************)
\* the secret keys, the challenges and the nonces of the entries of a batch
BatchScalars == {1, 2}

\* the entries of a batch but for their ids: a public key, a challenge and a
\* signature, valid or not
BatchEntries ==
  { << GMul(GENERATOR, x), c, [ R |-> GMul(GENERATOR, r), s |-> s ] >> :
      x \in BatchScalars, c \in BatchScalars, r \in BatchScalars, s \in F }

\* the ids of a batch of len entries: ascending, descending, or all the same
BatchIds(len) ==
  { [k \in 1 .. len |-> k], [k \in 1 .. len |-> len + 1 - k], [k \in 1 .. len |-> 1] }

\* the batches of len entries
RECURSIVE Batches(_)
Batches(len) ==
  IF len = 0 THEN { << >> }
  ELSE { Append(batch, entry) : batch \in Batches(len - 1), entry \in BatchEntries }

BatchInit ==
  /\ ParamsIdle
  /\ DkgIdle
  /\ KeysIdle
  /\ SignIdle
  /\ FaultIdle
  /\ subject = << >>
  /\ offsets = << >>
  /\ offset_keys = << >>
  /\ view_keys = << >>
  /\ viewed = << >>
  /\ \E len \in 0 .. MaxBatch : \E batch \in Batches(len), ids \in BatchIds(len) :
       call_args = [ k \in 1 .. len |->
                       << ids[k], batch[k][1], batch[k][2], batch[k][3] >> ]
  /\ call_result = NoResult

\* schnorr::batch_verify(rng, triplets)
BatchVerify ==
  /\ call_result = NoResult
  /\ call_result' = batch_verify(call_args)
  /\ UNCHANGED << call_args, exceptCall >>

BatchNext == BatchVerify

SpecBatch == BatchInit /\ [][BatchNext]_vars

(***************************************************************************)
(* Properties of MultisigParams::new                                       *)
(***************************************************************************)
ValidParams(p) == 1 <= p.t /\ p.t <= p.n /\ 1 <= p.i /\ p.i <= p.n

\* C10: MultisigParams::new(t, n, i) returns Ok, with the params (t, n, i), exactly
\* when 1 <= t <= n and 1 <= i <= n; otherwise ZeroParameter when t = 0 or n = 0,
\* else InvalidRequiredQuantity when t > n, else InvalidParticipantIndex; so the
\* params it returns satisfy 1 <= t <= n and 1 <= i <= n.
C10_NewContract ==
  new_args # << >> =>
    LET t == new_args[1]
        n == new_args[2]
        i == new_args[3]
    IN /\ IsOk(new_result) <=> (1 <= t /\ t <= n /\ 1 <= i /\ i <= n)
       /\ IsOk(new_result) =>
            /\ new_result.val = [t |-> t, n |-> n, i |-> i]
            /\ ValidParams(new_result.val)
       /\ ~IsOk(new_result) =>
            /\ IsErr(new_result)
            /\ new_result.kind =
                 IF t = 0 \/ n = 0 THEN "ZeroParameter"
                 ELSE IF t > n THEN "InvalidRequiredQuantity"
                 ELSE "InvalidParticipantIndex"

\* new was called with t = n = i, the largest index that is accepted
C10_Witness ==
  /\ new_args # << >>
  /\ new_args[1] = 2 /\ new_args[2] = 2 /\ new_args[3] = 2
  /\ IsOk(new_result)

(***************************************************************************)
(* Properties of key generation                                            *)
(***************************************************************************)
\* party i completed key generation and holds keys
HasKeys(i) == machine[i].state = "Consumed" /\ IsOk(returned[i])
Keys(i) == returned[i].val
AllHaveKeys == \A i \in 1 .. session.n : HasKeys(i)

\* the constant coefficient a_0 party j sampled
ConstantCoefficient(j) ==
  generate_key_r1(session.seeds[j], MultisigParams_new(session.t, session.n, j).val,
                  DkgContext).coefficients[1]

\* the group secret: the sum of every party's constant coefficient
GroupSecret == FSum([j \in 1 .. session.n |-> ConstantCoefficient(j)])

\* C1: with every party honest and every message delivered unaltered, no call of a
\* party returns an error or panics, and once a party has completed, its keys satisfy
\* GENERATOR * secret_share = verification_shares[i] and agree with every other
\* completed party's keys on group_key and verification_shares.
C1_DkgCorrect ==
  \A i \in 1 .. session.n :
    /\ returned[i].tag \in {"None", "Ok"}
    /\ HasKeys(i) =>
         /\ Keys(i).params = [t |-> session.t, n |-> session.n, i |-> i]
         /\ GMul(GENERATOR, Keys(i).secret_share) = Keys(i).verification_shares[i]
         /\ \A j \in 1 .. session.n :
              HasKeys(j) =>
                /\ Keys(j).group_key = Keys(i).group_key
                /\ Keys(j).verification_shares = Keys(i).verification_shares

\* three parties with threshold two have all completed key generation
C1_Witness == session.n = 3 /\ session.t = 2 /\ AllHaveKeys

\* the secret reconstructed from the shares of the parties of S
Recover(S) ==
  FSum([k \in 1 .. Cardinality(S) |->
          FMul(lagrange(Ascending(S)[k], Ascending(S)),
               Keys(Ascending(S)[k]).secret_share)])

\* C3: after a successful key generation, for every set S of exactly t indices the
\* sum over i in S of lagrange(i, S) * secret_share_i is the group secret, the sum
\* of the constant coefficients, and group secret * G = group_key.
C3_LagrangeReconstruction ==
  AllHaveKeys =>
    \A S \in SUBSET (1 .. session.n) :
      Cardinality(S) = session.t =>
        /\ Recover(S) = GroupSecret
        /\ \A i \in S : GMul(GENERATOR, GroupSecret) = Keys(i).group_key

\* key generation completed with 2 of 3, where the sets of two parties are proper
\* subsets and the shares differ from the secret
C3_Witness ==
  /\ session.n = 3 /\ session.t = 2 /\ AllHaveKeys
  /\ Keys(1).secret_share # GroupSecret
  /\ Keys(1).secret_share # Keys(2).secret_share


(***************************************************************************)
(* Properties of the persistence of keys                                   *)
(***************************************************************************)
\* the keys held were serialized and read back with the serialization unaltered
RoundTripped == restored # << >> /\ restored # NoResult /\ corruptions = 0

\* a point that G_to_bytes writes and G_from_slice reads back
Persistable(point) == point \in G /\ point # IDENTITY

\* every point of the keys can be read back
PersistableKeys(keys) ==
  /\ Persistable(keys.group_key)
  /\ \A l \in DOMAIN keys.verification_shares : Persistable(keys.verification_shares[l])

\* C5, as stated: for any MultisigKeys k, keys returned by offset included,
\* deserialize(serialize(k)) returns Ok(k2) with k2 equal to k in every field
\* (params, secret_share, group_key, verification_shares, offset).
C5_RoundTripEveryField ==
  RoundTripped => IsOk(restored) /\ restored.val = held

\* C5, amended: for keys k whose group key and verification shares all differ from
\* the identity, deserialize(serialize(k)) returns Ok(k2) with k2 equal to k in
\* params, secret_share, group_key and verification_shares and with k2.offset = None,
\* so k2 = k exactly when k was never offset; when a point of k is the identity,
\* deserialize(serialize(k)) returns an error.
C5_RoundTripButOffset ==
  RoundTripped =>
    IF PersistableKeys(held)
      THEN /\ IsOk(restored)
           /\ restored.val = [held EXCEPT !.offset = None]
           /\ (restored.val = held) <=> (held.offset = None)
      ELSE IsErr(restored)

\* keys offset by a scalar other than zero were serialized and read back: the group
\* key read is the offset one, the offset is gone
C5_Witness ==
  /\ RoundTripped
  /\ IsSome(held.offset) /\ held.offset # Some(0)
  /\ held.params.n = 3
  /\ IsOk(restored)
  /\ restored.val.group_key = held.group_key
  /\ restored.val.offset = None

\* what deserialize was given
Input == wire[1]

\* the fields of the input, by their place, when the input is long enough to hold them
InputT == Input[HeaderLen + U16Len]
InputN == Input[HeaderLen + (2 * U16Len)]
InputI == Input[HeaderLen + (3 * U16Len)]
InputSecret == Input[HeaderLen + (3 * U16Len) + F_len]
InputGroup == Input[HeaderLen + (3 * U16Len) + F_len + G_len]
InputShares == { Input[k] : k \in (HeaderLen + (3 * U16Len) + F_len + G_len + 1) .. Len(Input) }

\* the input has one of the defects deserialize is to reject
Defective ==
  \/ Len(Input) < HeaderLen + (2 * U16Len)
  \/ Len(Input) # serialized_len(InputN)
  \/ SubSeq(Input, 1, HeaderLen) # << CurveIDLen, CurveID >>
  \/ InputSecret \notin F
  \/ ~Persistable(InputGroup)
  \/ \E share \in InputShares : ~Persistable(share)
  \/ ~(1 <= InputT /\ InputT <= InputN /\ 1 <= InputI /\ InputI <= InputN)

\* C6: deserialize returns an error, never keys nor a panic, for any input whose
\* length differs from serialized_len(n) for the n it encodes, whose curve-ID prefix
\* differs from this curve's, whose secret share is not a canonical scalar, whose
\* group key or any verification share is not a valid non-identity point, or whose
\* (t, n, i) violate 1 <= t <= n and 1 <= i <= n; and it panics on no input.
C6_DeserializeRejects ==
  (restored # << >> /\ restored # NoResult) =>
    /\ ~IsPanic(restored)
    /\ Defective => IsErr(restored)

\* a serialization whose last verification share was overwritten with the identity
\* was read, and rejected
C6_Witness ==
  /\ restored # << >> /\ restored # NoResult
  /\ corruptions = 1
  /\ Len(Input) = serialized_len(3)
  /\ Input[Len(Input)] = IDENTITY
  /\ SubSeq(Input, 1, Len(Input) - 1) = SubSeq(serialize(held), 1, Len(Input) - 1)
  /\ PersistableKeys(held)
  /\ IsErr(restored)

(***************************************************************************)
(* Properties of signing                                                   *)
(***************************************************************************)
\* the call on the machine of party i returned
Returned(call) == signed # << >> /\ signed # NoResult /\ signed.call = call

\* the signature complete returned
Signature == signed.res.val

\* the secret of the group of the session's keys before any offset, and its key
SessionSecret == sign_session.secret
SessionKey == GMul(GENERATOR, SessionSecret)

\* Schnorr verification of a signature under a key, for the challenge c
SchnorrVerifies(key, c, signature) ==
  GMul(GENERATOR, signature.s) = GAdd(signature.R, GMul(key, c))

\* C2: for keys from a successful key generation and any included set of at least t
\* parties, with every included party honest and signing the same message, no call
\* of party i returns an error, and complete returns a signature (R, s) with
\* s * G = R + c * group_key for c = Hram(R, group_key, msg).
C2_SigningCorrect ==
  (sign_session.algorithm.name = "Schnorr" /\ faulty = None /\ signed # NoResult) =>
    /\ IsOk(signed.res)
    /\ Returned("complete") =>
         SchnorrVerifies(keyring[sign_session.i].group_key,
                         Hram(Signature.R, keyring[sign_session.i].group_key,
                              sign_session.msg),
                         Signature)

\* parties 1 and 3 of three, of which two are needed, signed, and party 3 completed
C2_Witness ==
  /\ sign_session.algorithm.name = "Schnorr"
  /\ sign_session.t = 2 /\ sign_session.n = 3
  /\ sign_session.included = << 1, 3 >> /\ sign_session.i = 3
  /\ faulty = None
  /\ Returned("complete") /\ IsOk(signed.res)

\* the sum of the shares of the views of the parties of included
ViewShares(included) ==
  FSum([k \in 1 .. Len(included) |-> view(keyring[included[k]], included).val.secret_share])

C7_BlamesFaultyShare ==
  (IsSome(faulty) /\ Returned("complete")) =>
    signed.res = Err("InvalidShare", faulty[1])

\* a CLSAG session of three parties in which party 3 published another scalar than
\* its share, and party 1 completed
C7_Witness ==
  /\ sign_session.algorithm.name = "CLSAG"
  /\ sign_session.included = << 1, 2, 3 >> /\ sign_session.i = 1
  /\ faulty = Some(3)
  /\ Len(shares[3]) = F_len /\ shares[3][1] \in F
  /\ Returned("complete")
  /\ IsErr(signed.res)

(***************************************************************************)
(* Properties of key generation among faulty peers                         *)
(***************************************************************************)
\* the call on the machine of party i returned
FaultReturned(call) == outcome # << >> /\ outcome # NoResult /\ outcome.call = call

\* the broadcast party i received from peer l, and the length of its commitments
Broadcast(l) == received1[1][l]
CommitmentsLen == fault_session.t * G_len

\* the k-th commitment (from 0) of the broadcast of peer l
Commitment(l, k) == G_from_slice(Slice(Broadcast(l), k * G_len, (k + 1) * G_len))

\* the broadcast of peer l holds t commitments, each a valid point, and the nonce
\* commitment of a proof after them
HoldsProof(l) ==
  /\ Len(Broadcast(l)) >= CommitmentsLen + G_len
  /\ \A k \in 0 .. fault_session.t - 1 : IsOk(Commitment(l, k))

\* the proof of knowledge of the broadcast of peer l verifies against C_{l,0}
ProofVerifies(l) ==
  LET R_bytes == Slice(Broadcast(l), CommitmentsLen, CommitmentsLen + G_len)
      R == G_from_slice(R_bytes)
      s == F_from_slice(Slice(Broadcast(l), CommitmentsLen + G_len, Len(Broadcast(l))))
      c == hash_to_F(DST_PoK, hash_msg(DkgContext) \o u16_to_be_bytes(l) \o R_bytes
                                \o Slice(Broadcast(l), 0, CommitmentsLen))
  IN /\ IsOk(R)
     /\ IsOk(s)
     /\ GMul(GENERATOR, s.val) = GAdd(R.val, GMul(Commitment(l, 0).val, c))

\* C8: when exactly one peer l broadcast a round 1 message whose proof of knowledge
\* does not verify against its commitment C_{l,0}, and every other party is honest,
\* generate_secret_shares at party i returns InvalidProofOfKnowledge(l), and party i
\* never holds a KeyMachine nor keys.
C8_BlamesForgedProof ==
  (IsSome(forged) /\ received1 # None) =>
    ((HoldsProof(forged[1]) /\ ~ProofVerifies(forged[1])) =>
       /\ FaultReturned("generate_secret_shares") =>
            outcome.res = Err("InvalidProofOfKnowledge", forged[1])
       /\ victim.state # "KeyMachine"
       /\ ~FaultReturned("complete"))

\* peer 3 of three broadcast a proof whose scalar is another than the one its machine
\* made, and party 1 ran generate_secret_shares
C8_Witness ==
  /\ fault_session.n = 3 /\ fault_session.t = 2 /\ fault_session.i = 1
  /\ forged = Some(3)
  /\ Len(Broadcast(3)) = CommitmentsLen + G_len + F_len
  /\ HoldsProof(3)
  /\ IsOk(G_from_slice(Slice(Broadcast(3), CommitmentsLen, CommitmentsLen + G_len)))
  /\ IsOk(F_from_slice(Slice(Broadcast(3), CommitmentsLen + G_len, Len(Broadcast(3)))))
  /\ ~ProofVerifies(3)
  /\ FaultReturned("generate_secret_shares")
  /\ IsErr(outcome.res)

\* the share party i received from sender j satisfies
\* sum_k i^k * C_{j,k} = s_{j,i} * G against the commitments of j's broadcast
ShareHolds(j) ==
  LET share == F_from_slice(received2[1][j])
  IN /\ IsOk(share)
     /\ GSum([ k \in 1 .. fault_session.t |->
                 GMul(Commitment(j, k - 1).val, Pow(FFrom(fault_session.i), k - 1, Q)) ])
          = GMul(GENERATOR, share.val)

\* C9: complete at party i returns Ok only if every share received holds against its
\* sender's commitments; when one does not, complete returns an error whose index is
\* a sender whose share does not hold, however many senders are faulty.
C9_BlamesFailingSender ==
  FaultReturned("complete") =>
    /\ IsOk(outcome.res) => \A j \in FaultPeers : ShareHolds(j)
    /\ (\E j \in FaultPeers : ~ShareHolds(j)) =>
         /\ IsErr(outcome.res)
         /\ outcome.res.l \in FaultPeers
         /\ ~ShareHolds(outcome.res.l)

\* both peers of party 1 sent a share that does not hold, and complete named peer 3
C9_Witness ==
  /\ fault_session.n = 3 /\ fault_session.i = 1
  /\ unsound = {2, 3}
  /\ FaultReturned("complete")
  /\ ~ShareHolds(2) /\ ~ShareHolds(3)
  /\ IsErr(outcome.res) /\ outcome.res.l = 3

(***************************************************************************)
(* Properties of MultisigKeys::view and MultisigKeys::offset               *)
(***************************************************************************)
\* view returned
Viewed == viewed # << >> /\ viewed # NoResult

\* C11: view(included) returns InvalidSigningSet when |included| < t or |included| > n,
\* and a view for every included list with t <= |included| <= n.
C11_ViewRequiresQuorum ==
  Viewed =>
    IF (Len(viewed.included) < view_keys.params.t)
         \/ (Len(viewed.included) > view_keys.params.n)
      THEN IsErr(viewed.res) /\ viewed.res.kind = "InvalidSigningSet"
    ELSE IsOk(viewed.res)

\* view of keys of two of three returned for a list of exactly two parties
C11_Witness ==
  /\ Viewed
  /\ view_keys.params.t = 2 /\ view_keys.params.n = 3
  /\ Len(viewed.included) = 2
  /\ IsOk(viewed.res)

(***************************************************************************)
(* Properties of schnorr::batch_verify                                     *)
(***************************************************************************)
\* the positions of the entries of the batch that schnorr::verify refuses
Refused ==
  { k \in DOMAIN call_args : ~verify(call_args[k][2], call_args[k][3], call_args[k][4]) }

\* the least position of a set of positions
First(S) == CHOOSE k \in S : \A other \in S : k <= other

\* C12: batch_verify returns Ok exactly when verify holds for every entry of the list,
\* the empty list included, and otherwise Err(id) for the id of the first entry in
\* list order that verify refuses.
C12_BatchAgreesWithVerify ==
  (call_result # << >> /\ call_result # NoResult) =>
    IF Refused = {} THEN IsOk(call_result)
    ELSE call_result = Err("Blame", call_args[First(Refused)][1])

\* a batch of two entries, both refused, the first with the id 2
C12_Witness ==
  /\ call_result # << >> /\ call_result # NoResult
  /\ Len(call_args) = 2
  /\ Refused = {1, 2}
  /\ call_args[1][1] = 2 /\ call_args[2][1] = 1
  /\ call_result = Err("Blame", 2)

(***************************************************************************)
(* Properties of the key generation machines                               *)
(***************************************************************************)
\* the machine a call consumes, and the machines it may leave
Consumes(call) ==
  CASE call = "generate_coefficients" -> "KeyGenMachine"
    [] call = "generate_secret_shares" -> "SecretShareMachine"
    [] call = "complete" -> "KeyMachine"
Leaves(call, res) ==
  CASE call = "generate_coefficients" -> "SecretShareMachine"
    [] call = "generate_secret_shares" -> IF IsOk(res) THEN "KeyMachine" ELSE "Consumed"
    [] call = "complete" -> "Consumed"

\* the session of party i failed: generate_secret_shares or complete returned no Ok
FaultFailed ==
  /\ outcome # NoResult
  /\ outcome.call \in {"generate_secret_shares", "complete"}
  /\ ~IsOk(outcome.res)

\* the step of a call on the machine of party i
C13_Step ==
  IF FaultFailed THEN victim' = victim /\ outcome' = outcome
  ELSE (victim' # victim \/ outcome' # outcome) =>
         /\ outcome' # NoResult
         /\ victim.state = Consumes(outcome'.call)
         /\ victim'.state = Leaves(outcome'.call, outcome'.res)
         /\ (outcome # NoResult /\ outcome.call = "complete") => FALSE

\* C13: a key generation session moves only forward, KeyGenMachine ->
\* SecretShareMachine -> KeyMachine -> MultisigKeys: every call consumes the machine
\* of its round and leaves that of the next, so that each is applied at most once and
\* in that order, and after generate_secret_shares or complete failed the session
\* takes no further step and yields no keys.
C13_ForwardOnly == [][C13_Step]_vars

\* party i went through both rounds and complete failed, consuming the machine
C13_Witness ==
  /\ FaultReturned("complete")
  /\ IsErr(outcome.res)
  /\ victim = Consumed

(***************************************************************************)
(* Properties of the signing machines                                      *)
(***************************************************************************)
\* party i published a share
OwnShare(published) == sign_session.i \in DOMAIN published

\* the last call on the machine of party i
LastCall(last) == IF last = NoResult THEN "none" ELSE last.call

\* the step of a call on the machine of party i, or of its peers
C14_Step ==
  /\ signer'.state # signer.state =>
       \/ /\ signer.state = "AlgorithmMachine"
          /\ signer'.state = "SignMachine"
          /\ signed'.call = "preprocess"
       \/ /\ signer.state = "SignMachine"
          /\ signer'.state = IF IsOk(signed'.res) THEN "SignatureMachine" ELSE "Consumed"
          /\ signed'.call = "sign"
       \/ /\ signer.state = "SignatureMachine"
          /\ signer'.state = "Consumed"
          /\ signed'.call = "complete"
  /\ LastCall(signed') # LastCall(signed) => signer'.state # signer.state
  /\ OwnShare(shares) =>
       OwnShare(shares') /\ shares'[sign_session.i] = shares[sign_session.i]
  /\ (OwnShare(shares') /\ ~OwnShare(shares)) =>
       /\ signer.state = "SignMachine"
       /\ signer'.state = "SignatureMachine"

\* C14: a signing session moves only forward, Fresh -> Preprocessed -> Signed ->
\* Complete: every call consumes the machine it is made on, the machine that holds
\* the nonces of a preprocess signs at most once, and the share party i published
\* is never replaced by another.
C14_ForwardOnly == [][C14_Step]_vars

\* party i preprocessed, signed and completed, and holds no machine
C14_Witness ==
  /\ Returned("complete")
  /\ IsOk(signed.res)
  /\ signer = Consumed
  /\ OwnShare(shares)

(***************************************************************************)
(* Properties of the faults key generation returns                         *)
(***************************************************************************)
\* the result names a peer of party i as the offender
BlamesPeer(res) == IsErr(res) /\ res.l \in FaultPeers

\* the peers that supplied bytes their machine did not make
Suppliers == unsound \cup (IF IsSome(forged) THEN {forged[1]} ELSE {})

\* C15: whatever bytes a peer supplies in key generation, a round 1 broadcast or a
\* round 2 share of any length or content, generate_secret_shares and complete at
\* party i return Ok or an error with a kind and the index of a peer that supplied
\* them: neither panics.
C15_FaultsAreErrors ==
  (FaultReturned("generate_secret_shares") \/ FaultReturned("complete")) =>
    \/ IsOk(outcome.res)
    \/ IsErr(outcome.res) /\ outcome.res.l \in Suppliers

\* a peer broadcast fewer cells than t commitments and a nonce commitment take, and
\* generate_secret_shares at party i panicked on a slice out of range
C15_ShortBroadcastPanics ==
  /\ IsSome(forged)
  /\ Len(Broadcast(forged[1])) < CommitmentsLen + G_len
  /\ FaultReturned("generate_secret_shares")
  /\ IsPanic(outcome.res)

\* round 2 shares of every length are answered with an error naming their sender
C15_SharesAreErrors ==
  (FaultReturned("complete") /\ \E l \in unsound : Len(received2[1][l]) # F_len) =>
    BlamesPeer(outcome.res)

\* a peer sent a share of no cell at all and complete named a peer
C15_SharesWitness ==
  /\ FaultReturned("complete")
  /\ \E l \in unsound : Len(received2[1][l]) = 0
  /\ BlamesPeer(outcome.res)

(***************************************************************************)
(* Specification of the CLSAG addendum: preprocess_addendum at a sender,   *)
(* process_addendum at a recipient                                         *)
(***************************************************************************)
\* what reaches the recipient in place of an addendum: the addendum, its beginnings
\* of every length, the addendum and a cell more, or the addendum with a cell
\* overwritten
ReceivedAddenda(addendum) ==
  { SubSeq(addendum, 1, k) : k \in 0 .. Len(addendum) }
    \cup { Append(addendum, c) : c \in Cell }
    \cup { [ addendum EXCEPT ![k] = c ] : k \in 1 .. Len(addendum), c \in Cell }

\* the sender l of a signing set of the keys of a key generation, its view and its
\* nonces, and the algorithm of the recipient with the binding factor p of l
AddendumInit ==
  /\ ParamsIdle
  /\ DkgIdle
  /\ KeysIdle
  /\ SignIdle
  /\ FaultIdle
  /\ subject = << >>
  /\ offsets = << >>
  /\ offset_keys = << >>
  /\ view_keys = << >>
  /\ viewed = << >>
  /\ \E kg \in KeyGenerations :
       \E keys \in { DkgKeyring(kg[1], kg[2], PartySeeds(kg[3], kg[2])) },
          secret \in { DkgSecret(kg[1], kg[2], PartySeeds(kg[3], kg[2])) },
          included \in IncludedLists(kg[1], kg[2]),
          msg \in Msgs,
          p \in F \ {0} :
         \E k \in 1 .. Len(included) :
           \E view_ \in { view(keys[included[k]], included).val },
              seed \in { PartySeeds(kg[3], kg[2])[included[k]] } :
             call_args =
               [ l |-> included[k],
                 view |-> view_,
                 seed |-> seed,
                 nonces |-> << random_nonce(view_.secret_share, seed, 0),
                               random_nonce(view_.secret_share, seed, 1) >>,
                 p |-> p,
                 algorithm |-> Multisig_new(msg, SignableInput_new(keys[1].group_key, secret)) ]
  /\ call_result = NoResult

\* Multisig::preprocess_addendum at the sender
PreprocessAddendum ==
  /\ call_result = NoResult
  /\ call_result' =
       [ call |-> "preprocess_addendum",
         addendum |-> Multisig_preprocess_addendum(call_args.seed, call_args.view,
                                                   call_args.nonces) ]
  /\ UNCHANGED << call_args, exceptCall >>

\* Multisig::process_addendum at the recipient, on the bytes that reached it
ProcessAddendum ==
  /\ call_result # NoResult
  /\ call_result.call = "preprocess_addendum"
  /\ \E serialized \in ReceivedAddenda(call_result.addendum) :
       \E processed \in { Multisig_process_addendum(
                            call_args.algorithm, call_args.view, call_args.l,
                            << GMul(GENERATOR_TABLE, call_args.nonces[1]),
                               GMul(GENERATOR_TABLE, call_args.nonces[2]) >>,
                            call_args.p, serialized) } :
         call_result' =
           [ call |-> "process_addendum",
             addendum |-> call_result.addendum,
             serialized |-> serialized,
             self |-> processed.self,
             res |-> processed.res ]
  /\ UNCHANGED << call_args, exceptCall >>

AddendumNext ==
  \/ PreprocessAddendum
  \/ ProcessAddendum

SpecAddendum == AddendumInit /\ [][AddendumNext]_vars

(***************************************************************************)
(* Properties of the CLSAG addendum                                        *)
(***************************************************************************)
\* the call of the addendum specification that returned
AddendumReturned(call) ==
  call_result # << >> /\ call_result # NoResult /\ call_result.call = call

\* C16 as stated: the addendum preprocess_addendum returns is addendum_commit_len
\* long, and process_addendum accepts an addendum of that length and no other.
C16_AddendumIsCommitLen ==
  /\ AddendumReturned("preprocess_addendum") =>
       Len(call_result.addendum) = Multisig_addendum_commit_len
  /\ AddendumReturned("process_addendum") =>
       /\ Len(call_result.serialized) # Multisig_addendum_commit_len =>
            IsErr(call_result.res)
       /\ call_result.serialized = call_result.addendum =>
            /\ IsOk(call_result.res)
            /\ Len(call_result.serialized) = Multisig_addendum_commit_len

\* C16: the addendum preprocess_addendum returns is 192 bytes long, more than the 64
\* of addendum_commit_len, which are the two points it begins with; process_addendum
\* accepts that addendum, and answers every addendum of another length, that of
\* addendum_commit_len too, with InvalidCommitmentQuantity(l, 6, length / 32).
C16_AddendumLength ==
  /\ AddendumReturned("preprocess_addendum") =>
       /\ Len(call_result.addendum) = AddendumLen
       /\ Multisig_addendum_commit_len < AddendumLen
  /\ AddendumReturned("process_addendum") =>
       /\ Len(call_result.serialized) # AddendumLen =>
            call_result.res = Err("InvalidCommitmentQuantity",
                                  << call_args.l, 6, Len(call_result.serialized) >>)
       /\ IsOk(call_result.res) => Len(call_result.serialized) = AddendumLen
       /\ call_result.serialized = call_result.addendum => IsOk(call_result.res)

\* the recipient was handed the two points of an addendum alone, as many cells as
\* addendum_commit_len, and refused them
C16_Witness ==
  /\ AddendumReturned("process_addendum")
  /\ Len(call_result.addendum) = AddendumLen
  /\ Len(call_result.serialized) = Multisig_addendum_commit_len
  /\ IsErr(call_result.res)

(***************************************************************************)
(* Properties of the views MultisigKeys::view returns                      *)
(***************************************************************************)
\* the list holds distinct indices of 1 .. n
DistinctParties(included, n) ==
  /\ \A k \in DOMAIN included : included[k] \in 1 .. n
  /\ \A k, other \in DOMAIN included : included[k] = included[other] => k = other

\* C17: a view that view(included) returned on the keys of a key generation, offset or
\* not, for an included list of distinct indices of 1 .. n, holds
\* secret_share = keys.secret_share * lagrange(i, included) + offset / |included|,
\* GENERATOR * secret_share = verification_shares[i], and verification shares whose sum
\* over the parties included is the group key.
C17_ViewShares ==
  (Viewed /\ IsOk(viewed.res) /\ DistinctParties(viewed.included, view_keys.params.n)) =>
    /\ viewed.res.val.secret_share =
         FAdd(FMul(view_keys.secret_share, lagrange(view_keys.params.i, viewed.included)),
              FMul(UnwrapOr(view_keys.offset, 0), FInvert(FFrom(Len(viewed.included)))))
    /\ GMul(GENERATOR, viewed.res.val.secret_share) =
         viewed.res.val.verification_shares[view_keys.params.i]
    /\ GSum([ k \in DOMAIN viewed.included |->
                viewed.res.val.verification_shares[viewed.included[k]] ])
         = viewed.res.val.group_key
    /\ viewed.res.val.group_key = view_keys.group_key

\* a view of offset keys of two of three for the parties 3 and 1, in that order
C17_Witness ==
  /\ Viewed
  /\ IsOk(viewed.res)
  /\ view_keys.params.t = 2 /\ view_keys.params.n = 3
  /\ IsSome(view_keys.offset) /\ view_keys.offset[1] # 0
  /\ viewed.included = << 3, 1 >>
  /\ viewed.res.val.secret_share # view_keys.secret_share

\* C18: the included list a view holds is the ascending list of the set of the parties
\* passed to view, whatever their order in the list the caller passed.
C18_IncludedSorted ==
  (Viewed /\ IsOk(viewed.res)) =>
    viewed.res.val.included =
      Ascending({ viewed.included[k] : k \in DOMAIN viewed.included })

\* view was passed the parties 3 and 1 in that order, and the view holds them so
C18_KeepsCallerOrder ==
  /\ Viewed
  /\ IsOk(viewed.res)
  /\ viewed.included = << 3, 1 >>
  /\ viewed.res.val.included = << 3, 1 >>

(***************************************************************************)
(* Properties of MultisigKeys::offset                                      *)
(***************************************************************************)
\* the sum of the offsets applied so far
OffsetSum == FSum(offsets)

\* C19: offsets compose additively: the keys after offset(a) and then offset(b) equal
\* the keys after offset(a + b) in every field, their group key is that of the keys
\* they were made from plus (a + b) * G, and offset changes neither those keys nor the
\* params, the secret share and the verification shares of the keys it returns.
C19_OffsetsAdd ==
  (subject # << >> /\ Len(offsets) >= 1) =>
    /\ offset_keys = offset(subject, OffsetSum)
    /\ offset_keys.offset = Some(OffsetSum)
    /\ offset_keys.group_key = GAdd(subject.group_key, GMul(GENERATOR, OffsetSum))
    /\ offset_keys.params = subject.params
    /\ offset_keys.secret_share = subject.secret_share
    /\ offset_keys.verification_shares = subject.verification_shares
    /\ subject.offset = None

\* keys offset by 1 and then by 3, whose sum 4 is neither of the two
C19_Witness ==
  /\ subject # << >>
  /\ offsets = << 1, 3 >>
  /\ offset_keys.offset = Some(4)
  /\ offset_keys.group_key # subject.group_key

(***************************************************************************)
(* Specification of validate_map                                           *)
(***************************************************************************)
\* the values of the entries of a map
MapValues == {1, 2}

\* the maps a caller passes: any parties of 1 .. MaxN, each with a value
Maps == UNION { [ S -> MapValues ] : S \in SUBSET (1 .. MaxN) }

\* the included lists a caller passes: up to MaxN parties in any order
IncludedParties == UNION { Lists(1 .. MaxN, len) : len \in 0 .. MaxN }

MapInit ==
  /\ ParamsIdle
  /\ DkgIdle
  /\ KeysIdle
  /\ SignIdle
  /\ FaultIdle
  /\ subject = << >>
  /\ offsets = << >>
  /\ offset_keys = << >>
  /\ view_keys = << >>
  /\ viewed = << >>
  /\ \E map \in Maps, included \in IncludedParties, i \in 1 .. MaxN, value \in MapValues :
       call_args = [ map |-> map, included |-> included, ours |-> << i, value >> ]
  /\ call_result = NoResult

\* validate_map(map, included, ours)
ValidateMap ==
  /\ call_result = NoResult
  /\ call_result' = validate_map(call_args.map, call_args.included, call_args.ours)
  /\ UNCHANGED << call_args, exceptCall >>

MapNext == ValidateMap

SpecMap == MapInit /\ [][MapNext]_vars

(***************************************************************************)
(* Properties of validate_map                                              *)
(***************************************************************************)
\* validate_map returned
Validated == call_result # << >> /\ call_result # NoResult

\* the keys of the map after the insertion of ours, and the parties included
KeysAfter == DOMAIN call_args.map \cup { call_args.ours[1] }
IncludedSet == { call_args.included[k] : k \in DOMAIN call_args.included }

\* the first party of included that is no key of the map after the insertion
FirstAbsent ==
  call_args.included[First({ k \in DOMAIN call_args.included :
                               call_args.included[k] \notin KeysAfter })]

\* C20: for an included list of distinct indices, validate_map returns Ok exactly when
\* the keys of the map after the insertion of ours are the parties included,
\* InvalidParticipantQuantity when their number is not that of the parties included,
\* and else MissingParticipant(l) for the first l of included that is no key; the map
\* holds at our own index the value passed as ours, whatever it held there, and its
\* other entries as they were.
C20_ValidateMap ==
  (Validated /\ DistinctParties(call_args.included, MaxN)) =>
    /\ IsOk(call_result.res) <=> KeysAfter = IncludedSet
    /\ Cardinality(KeysAfter) # Len(call_args.included) =>
         call_result.res = Err("InvalidParticipantQuantity",
                               << Len(call_args.included), Cardinality(KeysAfter) >>)
    /\ (Cardinality(KeysAfter) = Len(call_args.included) /\ KeysAfter # IncludedSet) =>
         call_result.res = Err("MissingParticipant", FirstAbsent)
    /\ DOMAIN call_result.map = KeysAfter
    /\ call_result.map[call_args.ours[1]] = call_args.ours[2]
    /\ \A l \in DOMAIN call_args.map \ { call_args.ours[1] } :
         call_result.map[l] = call_args.map[l]

\* the caller passed an entry of another value for our own index, and the map of the
\* parties 2 and 1 was accepted with our value in its place
C20_Witness ==
  /\ Validated
  /\ call_args.included = << 2, 1 >>
  /\ call_args.ours[1] \in DOMAIN call_args.map
  /\ call_args.map[call_args.ours[1]] # call_args.ours[2]
  /\ IsOk(call_result.res)
  /\ call_result.map[call_args.ours[1]] = call_args.ours[2]

(***************************************************************************)
(* Specification of schnorr::sign and schnorr::verify                      *)
(***************************************************************************)
\* a private key, a nonce and a challenge
SchnorrInit ==
  /\ ParamsIdle
  /\ DkgIdle
  /\ KeysIdle
  /\ SignIdle
  /\ FaultIdle
  /\ subject = << >>
  /\ offsets = << >>
  /\ offset_keys = << >>
  /\ view_keys = << >>
  /\ viewed = << >>
  /\ \E x \in F, r \in F, c \in F :
       call_args = [ private_key |-> x, nonce |-> r, challenge |-> c ]
  /\ call_result = NoResult

\* schnorr::sign(private_key, nonce, challenge)
SchnorrSign ==
  /\ call_result = NoResult
  /\ call_result' =
       [ call |-> "sign",
         signature |-> sign(call_args.private_key, call_args.nonce, call_args.challenge) ]
  /\ UNCHANGED << call_args, exceptCall >>

\* schnorr::verify(public_key, challenge, (R, s)) for the R of the signature and any s
SchnorrVerify(s) ==
  /\ call_result # NoResult
  /\ call_result.call = "sign"
  /\ call_result' =
       [ call |-> "verify",
         signature |-> call_result.signature,
         s |-> s,
         res |-> verify(GMul(GENERATOR_TABLE, call_args.private_key), call_args.challenge,
                        [ R |-> call_result.signature.R, s |-> s ]) ]
  /\ UNCHANGED << call_args, exceptCall >>

SchnorrNext ==
  \/ SchnorrSign
  \/ \E s \in F : SchnorrVerify(s)

SpecSchnorr == SchnorrInit /\ [][SchnorrNext]_vars

(***************************************************************************)
(* Properties of schnorr::sign and schnorr::verify                         *)
(***************************************************************************)
\* C21: for all scalars x, r, c, verify(x * G, c, sign(x, r, c)) is true, and for the
\* public key x * G, the challenge c and the point R of the signature, verify accepts
\* (R, s) for the scalar s of the signature and for no other.
C21_SignVerifies ==
  /\ (call_result # << >> /\ call_result # NoResult) =>
       /\ call_result.signature.R = GMul(GENERATOR, call_args.nonce)
       /\ verify(GMul(GENERATOR, call_args.private_key), call_args.challenge,
                 call_result.signature)
       /\ Cardinality({ s \in F :
            verify(GMul(GENERATOR, call_args.private_key), call_args.challenge,
                   [ R |-> call_result.signature.R, s |-> s ]) }) = 1
  /\ (call_result # << >> /\ call_result # NoResult /\ call_result.call = "verify") =>
       (call_result.res <=> call_result.s = call_result.signature.s)

\* verify refused the signature of the key 2 with another scalar in place of its own
C21_Witness ==
  /\ call_result # << >> /\ call_result # NoResult
  /\ call_result.call = "verify"
  /\ call_args.private_key = 2 /\ call_args.challenge = 3
  /\ call_result.s # call_result.signature.s
  /\ ~call_result.res

(***************************************************************************)
(* Properties of the shares generate_secret_shares returns                 *)
(***************************************************************************)
\* the coefficients a_0 .. a_{t-1} of party i, as generate_coefficients drew them
Coefficients(i) ==
  generate_key_r1(session.seeds[i],
                  MultisigParams_new(session.t, session.n, i).val, DkgContext).coefficients

\* f_i(l) = sum over k < t of a_k * l^k
Evaluate(i, l) ==
  FSum([ k \in 1 .. session.t |-> FMul(Coefficients(i)[k], Pow(FFrom(l), k - 1, Q)) ])

\* C22: the map generate_secret_shares returned at party i has the keys 1 .. n but i,
\* the party's own share not among them, and holds at each l the encoding of
\* f_i(l) = sum over k < t of a_k * l^k for the coefficients a_k the party committed to
\* in its round 1 broadcast.
C22_SharesOfPolynomial ==
  \A i \in DOMAIN round2 :
    /\ DOMAIN round2[i] = (1 .. session.n) \ {i}
    /\ returned[i] # NoResult
    /\ \A k \in 1 .. session.t :
         Slice(round1[i], (k - 1) * G_len, k * G_len)
           = G_to_bytes(GMul(GENERATOR, Coefficients(i)[k]))
    /\ \A l \in DOMAIN round2[i] :
         round2[i][l] = F_to_bytes(Evaluate(i, l))

\* party 2 of three with threshold 3 returned its shares, those for 1 and for 3
C22_Witness ==
  /\ session # << >>
  /\ session.t = 3 /\ session.n = 3
  /\ 2 \in DOMAIN round2
  /\ DOMAIN round2[2] = {1, 3}
  /\ round2[2][1] # round2[2][3]

(***************************************************************************)
(* Properties of the keys complete returns among faulty peers              *)
(***************************************************************************)
\* C23: whenever the share of every sender holds against the commitments of its
\* broadcast, be the broadcasts and the shares those of honest machines or not,
\* complete_r2 passes its assertion GENERATOR * secret_share = verification_shares[i]:
\* it returns keys for which the equation holds, and does not panic.
C23_AssertionHolds ==
  (FaultReturned("complete") /\ \A j \in FaultPeers : ShareHolds(j)) =>
    /\ IsOk(outcome.res)
    /\ GMul(GENERATOR, outcome.res.val.secret_share)
         = outcome.res.val.verification_shares[fault_session.i]

\* a peer broadcast commitments its machine did not make, sent a share its machine did
\* not make either, and complete at party i returned keys
C23_Witness ==
  /\ FaultReturned("complete")
  /\ IsSome(forged)
  /\ forged[1] \in unsound
  /\ \A j \in FaultPeers : ShareHolds(j)
  /\ IsOk(outcome.res)

\* the round 1 broadcast of party j as party i holds it: its own, or the one received
Held1(j) ==
  IF j = fault_session.i THEN PeerRound1(j).serialized ELSE Broadcast(j)

\* the k-th commitment (from 0) of the broadcast of party j
Committed(j, k) == G_from_slice(Slice(Held1(j), k * G_len, (k + 1) * G_len)).val

\* the stripe S_k: the sum over the parties j of C_{j,k}
Stripe(k) == GSum([ j \in 1 .. fault_session.n |-> Committed(j, k) ])

\* C24: the keys complete returned at party i hold the group key sum_j C_{j,0} and the
\* verification shares v_l = sum_k l^k * sum_j C_{j,k} of the round 1 broadcasts, whoever
\* i is and whatever shares it received: two parties that complete on the same
\* broadcasts hold the same group key and the same verification shares, also among
\* dishonest parties.
C24_KeysOfBroadcasts ==
  (FaultReturned("complete") /\ IsOk(outcome.res)) =>
    /\ outcome.res.val.group_key = Stripe(0)
    /\ DOMAIN outcome.res.val.verification_shares = 1 .. fault_session.n
    /\ \A l \in 1 .. fault_session.n :
         outcome.res.val.verification_shares[l] =
           GSum([ k \in 1 .. fault_session.t |->
                    GMul(Stripe(k - 1), Pow(FFrom(l), k - 1, Q)) ])

\* party 1 of three with threshold 2 completed on broadcasts of which one was not its
\* sender's machine's
C24_Witness ==
  /\ FaultReturned("complete")
  /\ IsOk(outcome.res)
  /\ IsSome(forged)
  /\ fault_session.n = 3 /\ fault_session.t = 2 /\ fault_session.i = 1

(***************************************************************************)
(* Properties of round 1 on commitments to the identity                    *)
(***************************************************************************)
\* the k-th commitment (from 0) of the broadcast of peer l encodes the identity
CommitsIdentity(l, k) ==
  /\ Len(Broadcast(l)) >= (k + 1) * G_len
  /\ Slice(Broadcast(l), k * G_len, (k + 1) * G_len) = G_to_bytes(IDENTITY)

\* C25: when a commitment C_{j,k} of the round 1 broadcast of a peer j encodes the
\* identity, generate_secret_shares at party i returns InvalidCommitment(j), and party i
\* never holds a KeyMachine nor keys made with j.
C25_RejectsIdentity ==
  (IsSome(forged) /\ received1 # None) =>
    ((\E k \in 0 .. fault_session.t - 1 : CommitsIdentity(forged[1], k)) =>
       /\ FaultReturned("generate_secret_shares") =>
            outcome.res = Err("InvalidCommitment", forged[1])
       /\ victim.state # "KeyMachine"
       /\ ~FaultReturned("complete"))

\* peer 2 broadcast the identity for its second commitment, C_{2,1}, and
\* generate_secret_shares at party 1 refused it
C25_Witness ==
  /\ forged = Some(2)
  /\ fault_session.i = 1 /\ fault_session.t >= 2
  /\ received1 # None
  /\ CommitsIdentity(2, 1)
  /\ ~CommitsIdentity(2, 0)
  /\ FaultReturned("generate_secret_shares")
  /\ outcome.res = Err("InvalidCommitment", 2)

\* C29: when process_addendum returns an error for peer l, for an addendum of another
\* length, a point that does not decode or a DLEq proof that does not verify, the
\* algorithm is as it was before the call: its transcript b, its accumulator AH and
\* its interim state are unchanged.
C29_ErrorLeavesAlgorithm ==
  (AddendumReturned("process_addendum") /\ IsErr(call_result.res)) =>
    /\ call_result.self.b = call_args.algorithm.b
    /\ call_result.self.AH = call_args.algorithm.AH
    /\ call_result.self.interim = call_args.algorithm.interim
    /\ call_result.self = call_args.algorithm

\* process_addendum refused an addendum of the right length whose first proof had
\* been altered
C29_Witness ==
  /\ AddendumReturned("process_addendum")
  /\ Len(call_result.serialized) = AddendumLen
  /\ Slice(call_result.serialized, 0, 2) = Slice(call_result.addendum, 0, 2)
  /\ Slice(call_result.serialized, 2, 4) # Slice(call_result.addendum, 2, 4)
  /\ call_result.res = Err("InvalidCommitment", call_args.l)
  /\ call_result.self = call_args.algorithm

(***************************************************************************)
(* Properties of the CLSAG algorithm in a signing session                  *)
(***************************************************************************)
\* party i of a CLSAG session signed: process_addendum succeeded for every party
\* included. Nothing touches the machine between sign and complete, so its algorithm
\* is looked at when sign returned, among honest peers
ClsagSigned ==
  /\ Returned("sign")
  /\ signer.state = "SignatureMachine"
  /\ faulty = None
  /\ sign_session.algorithm.name = "CLSAG"

\* every party of a CLSAG session signed, all of them honest
ClsagShared == ClsagSigned /\ Included \subseteq DOMAIN shares

\* the nonces d_l, e_l of every party l, and from them the nonce d_l + rho_l * e_l of
\* party l under the binding factors party i derived
PartyNonces == Collect([ l \in Included |-> PeerPreprocess(l).nonces ])
BoundNonce(nonces, l) ==
  FAdd(nonces[l][1], FMul(nonces[l][2], signer.sign_params.binding[l]))

\* the second generator of the session
SessionH == hash_to_point(signer.params.view.group_key)

\* C26: after process_addendum succeeded for every l of the included set,
\* AH = sum over l of (d_l * H + rho_l * e_l * H), so that AH = r * H for the r with
\* R = r * G, R being the aggregated nonce sum over l of (D_l + rho_l * E_l).
C26_AccumulatorMatchesNonce ==
  ClsagSigned =>
    \E nonces \in { PartyNonces }, H \in { SessionH } :
      \E nonce_sum \in { FSum([ k \in DOMAIN sign_session.included |->
                                  BoundNonce(nonces, sign_session.included[k]) ]) } :
        LET included == sign_session.included
        IN /\ signer.sign_params.algorithm.AH =
                GSum([ k \in DOMAIN included |->
                         GAdd(GMul(H, nonces[included[k]][1]),
                              GMul(GMul(H, nonces[included[k]][2]),
                                   signer.sign_params.binding[included[k]])) ])
           /\ signer.sign_params.R =
                GSum([ k \in DOMAIN included |->
                         GAdd(signer.sign_params.B[included[k]][1],
                              GMul(signer.sign_params.B[included[k]][2],
                                   signer.sign_params.binding[included[k]])) ])
           /\ signer.sign_params.R = GMul(GENERATOR, nonce_sum)
           /\ signer.sign_params.algorithm.AH = GMul(H, nonce_sum)

\* a CLSAG session of three parties in which party i signed and the binding factor of
\* a party is not 1
C26_Witness ==
  /\ ClsagSigned
  /\ Len(sign_session.included) = 3
  /\ \E l \in Included : signer.sign_params.binding[l] # 1
  /\ signer.sign_params.algorithm.AH # IDENTITY

\* the algorithm of party l after its own sign, on the preprocesses party i signed on
PartyAlgorithm(l) ==
  sign_with_share(PeerParams(l), PeerPreprocess(l), preprocesses,
                  sign_session.msg).val.sign_params.algorithm

\* C27: every party of a CLSAG session holds the same transcript b and the same
\* accumulator AH when its sign_share runs, in whatever order the preprocesses
\* reached the map, and so derives the same randomness, mask and challenge: the
\* algorithms of the parties are equal after sign, interim state included.  Once
\* every party signed, the algorithm of each peer is compared with that of party i.
C27_PartiesAgree ==
  ClsagShared =>
    \A l \in Peers :
      \E theirs \in { PartyAlgorithm(l) } :
        /\ theirs.b = signer.sign_params.algorithm.b
        /\ theirs.AH = signer.sign_params.algorithm.AH
        /\ theirs.interim = signer.sign_params.algorithm.interim

\* the three parties of a CLSAG session signed, the transcript of party i holding
\* the three parties' entries
C27_Witness ==
  /\ ClsagShared
  /\ Len(sign_session.included) = 3
  /\ Len(signer.sign_params.algorithm.b) = 3 * (4 + 2)
  /\ IsSome(signer.sign_params.algorithm.interim)

\* the scalars verify_share accepts for party l, checked as party i checks them: with
\* the nonce commitment D_l + rho_l * E_l and l's verification share of the view
AcceptedShares(l) ==
  { share \in F :
      Multisig_verify_share(signer.sign_params.algorithm,
                            signer.params.view.verification_shares[l],
                            GAdd(signer.sign_params.B[l][1],
                                 GMul(signer.sign_params.B[l][2],
                                      signer.sign_params.binding[l])),
                            share) }

\* C28: the share an honest party l returns from sign_share is
\* nonce_l - c * mu_P * view.secret_share_l; it satisfies verify_share with l's nonce
\* commitment D_l + rho_l * E_l and l's verification share of the view, and no other
\* scalar does.
C28_ShareVerifies ==
  ClsagShared =>
    \E nonces \in { PartyNonces } :
      \A l \in Included :
        /\ shares[l] =
             F_to_bytes(FSub(BoundNonce(nonces, l),
                             FMul(signer.sign_params.algorithm.interim[1].c,
                                  PeerParams(l).view.secret_share)))
        /\ AcceptedShares(l) = { F_from_slice(shares[l]).val }

\* the three parties of a CLSAG session published their shares, not all the same
C28_Witness ==
  /\ ClsagShared
  /\ Len(sign_session.included) = 3
  /\ \E l, other \in Included : shares[l] # shares[other]

\* C30: the included list of every view that view(included) returned holds pairwise
\* distinct indices of 1 .. n, the key holder's own index params.i among them.
C30_IncludedWellFormed ==
  (Viewed /\ IsOk(viewed.res)) =>
    /\ DistinctParties(viewed.res.val.included, view_keys.params.n)
    /\ \E k \in DOMAIN viewed.res.val.included :
         viewed.res.val.included[k] = view_keys.params.i

\* view was passed party 1 twice on the keys of party 2 of three, and returned a view
\* that holds the list as passed
C30_AcceptsAnyList ==
  /\ Viewed
  /\ view_keys.params.i = 2 /\ view_keys.params.n = 3 /\ view_keys.params.t = 2
  /\ viewed.included = << 1, 1 >>
  /\ IsOk(viewed.res)
  /\ viewed.res.val.included = << 1, 1 >>

========================================================================
